---- MODULE Spec2Model ----
(***************************************************************************)
(* A model of the compiler passes of essentials-of-compilation-rs:         *)
(* uniquify (Renamer), remove_complex_operands (Flattener),                *)
(* explicate_control (Explicator), select_instructions (Instruction        *)
(* Selector), assign_homes (Home Assigner) and patch_instructions          *)
(* (Legalizer), together with the reference interpreter used to state      *)
(* semantic equivalence.                                                   *)
(*                                                                         *)
(* The passes are pure functions over trees; each is an operator computed  *)
(* as the Rust code computes it.  The state machine draws a Surface        *)
(* Expression in Init and applies the passes to it.                        *)
(***************************************************************************)
EXTENDS Integers, Sequences, FiniteSets, TLC

(***************************************************************************)
(* 64-bit machine integers.  A u64 / i64 is its bit pattern, held as four  *)
(* 16-bit limbs, least significant first; an i64 is the two's complement   *)
(* reading of the same pattern.                                            *)
(***************************************************************************)
Limb == 2^16

HalfLimb == 2^15

U64(n) == <<n % Limb, (n \div Limb) % Limb, 0, 0>>

I64_MAX == <<Limb - 1, Limb - 1, Limb - 1, HalfLimb - 1>>

I64_MIN == <<0, 0, 0, HalfLimb>>

U64_MAX == <<Limb - 1, Limb - 1, Limb - 1, Limb - 1>>

is_negative(v) == v[4] >= HalfLimb

Carry(a, b, i) ==
    LET c1 == (a[1] + b[1]) \div Limb
        c2 == (a[2] + b[2] + c1) \div Limb
        c3 == (a[3] + b[3] + c2) \div Limb
    IN  CASE i = 1 -> 0 [] i = 2 -> c1 [] i = 3 -> c2 [] OTHER -> c3

wrapping_add(a, b) == [i \in 1..4 |-> (a[i] + b[i] + Carry(a, b, i)) % Limb]

BitNot(a) == [i \in 1..4 |-> Limb - 1 - a[i]]

wrapping_neg(a) == wrapping_add(BitNot(a), U64(1))

wrapping_sub(a, b) == wrapping_add(a, wrapping_neg(b))

\* i64::overflowing_neg: (wrapped result, overflow flag)
overflowing_neg(a) ==
    [result |-> wrapping_neg(a), overflow |-> a = I64_MIN]

\* i64::overflowing_add
overflowing_add(a, b) ==
    LET r == wrapping_add(a, b)
    IN  [result |-> r,
         overflow |-> is_negative(a) = is_negative(b)
                        /\ is_negative(r) # is_negative(a)]

\* i64::overflowing_sub
overflowing_sub(a, b) ==
    LET r == wrapping_sub(a, b)
    IN  [result |-> r,
         overflow |-> is_negative(a) # is_negative(b)
                        /\ is_negative(r) # is_negative(a)]

\* i64::try_from(u64)
try_into_i64(val) ==
    IF is_negative(val)
    THEN [ok |-> FALSE, err |-> [kind |-> "IntegerConversionError"]]
    ELSE [ok |-> TRUE, value |-> val]

\* a variant that clamps to i64::MAX instead of reinterpreting
as_i64_saturating(val) == IF is_negative(val) THEN I64_MAX ELSE val

\* `val as i64`: two's complement reinterpretation, the bit pattern is kept
as_i64(val) == val

(***************************************************************************)
(* frontend::Expr, the Surface Expression.                                 *)
(***************************************************************************)
Integer(val) == [tag |-> "Integer", val |-> val]

Read == [tag |-> "Read"]

Identifier(name) == [tag |-> "Identifier", name |-> name]

UnaryOperation(kind, operand) ==
    [tag |-> "UnaryOperation", kind |-> kind, operand |-> operand]

BinaryOperation(kind, left_operand, right_operand) ==
    [tag |-> "BinaryOperation", kind |-> kind,
     left_operand |-> left_operand, right_operand |-> right_operand]

Let(variable_name, init_expr, body) ==
    [tag |-> "Let", variable_name |-> variable_name,
     init_expr |-> init_expr, body |-> body]

(***************************************************************************)
(* NameGenerator::generate: format!("{}{}", prefix, index), index += 1.    *)
(***************************************************************************)
generate(prefix, index) == [name |-> prefix \o ToString(index), index |-> index + 1]

(***************************************************************************)
(* The reference interpreter (frontend/src/interpreter.rs).                *)
(* symbol_table is a sequence of scopes, each a map name -> i64.           *)
(***************************************************************************)
IOk(v) == [ok |-> TRUE, value |-> v]

IErr(e) == [ok |-> FALSE, err |-> e]

declare_name(symbol_table, name, value) ==
    [symbol_table EXCEPT ![Len(symbol_table)] = (name :> value) @@ @]

interp_enter_scope(symbol_table) == Append(symbol_table, <<>>)

\* iter().rev().find_map(|table| table.get(name))
interp_lookup(symbol_table, name) ==
    LET hits == {i \in 1..Len(symbol_table) : name \in DOMAIN symbol_table[i]}
    IN  IF hits = {} THEN [some |-> FALSE]
        ELSE [some |-> TRUE,
              value |-> symbol_table[CHOOSE i \in hits : \A j \in hits : j <= i][name]]

\* the expect() of the Read arm failed: the process aborts
IPanic == [ok |-> FALSE, panic |-> TRUE]

\* Standard input is a sequence of lines still to be read.  A line either
\* holds an i64 once trimmed, or holds other text (the empty line included),
\* or is not valid UTF-8.
IntLine(value) == [kind |-> "i64", value |-> value]

TextLine == [kind |-> "text"]

InvalidLine == [kind |-> "invalid_utf8"]

\* read_line(&mut input).expect(..); input.trim().parse()?
\* At end of input read_line returns Ok(0) and leaves input empty, whose
\* parse fails; on a line that is not UTF-8 read_line fails and expect aborts.
read_line(stdin) ==
    IF stdin = <<>>
    THEN [result |-> IErr([kind |-> "ParseIntegerError"]), stdin |-> stdin]
    ELSE LET line == Head(stdin)
         IN  CASE line.kind = "i64" ->
                    [result |-> IOk(line.value), stdin |-> Tail(stdin)]
               [] line.kind = "text" ->
                    [result |-> IErr([kind |-> "ParseIntegerError"]),
                     stdin |-> Tail(stdin)]
               [] line.kind = "invalid_utf8" ->
                    [result |-> IPanic, stdin |-> Tail(stdin)]

\* returns the Result and what is left of standard input
RECURSIVE evaluate_expr(_, _, _)
evaluate_expr(symbol_table, stdin, expr) ==
    CASE expr.tag = "Integer" ->
            [result |-> try_into_i64(expr.val), stdin |-> stdin]
      [] expr.tag = "Read" -> read_line(stdin)
      [] expr.tag = "Identifier" ->
            LET found == interp_lookup(symbol_table, expr.name)
            IN  [result |-> IF found.some THEN IOk(found.value)
                            ELSE IErr([kind |-> "UnknownIdentifier",
                                       name |-> expr.name]),
                 stdin |-> stdin]
      [] expr.tag = "UnaryOperation" ->
            LET operand == evaluate_expr(symbol_table, stdin, expr.operand)
                value == operand.result.value
            IN  IF ~operand.result.ok THEN operand
                ELSE LET r == overflowing_neg(value)
                     IN  [result |->
                            IF r.overflow
                            THEN IErr([kind |-> "ArithmeticOverflow",
                                       overflow |-> <<"NegOverflow", value>>])
                            ELSE IOk(r.result),
                          stdin |-> operand.stdin]
      [] expr.tag = "BinaryOperation" ->
            LET lhs == evaluate_expr(symbol_table, stdin, expr.left_operand)
            IN  IF ~lhs.result.ok THEN lhs
                ELSE LET rhs == evaluate_expr(symbol_table, lhs.stdin,
                                              expr.right_operand)
                         l == lhs.result.value
                         r == rhs.result.value
                     IN  IF ~rhs.result.ok THEN rhs
                         ELSE IF expr.kind = "Add"
                         THEN LET sum == overflowing_add(l, r)
                              IN  [result |->
                                     IF sum.overflow
                                     THEN IErr([kind |-> "ArithmeticOverflow",
                                                overflow |-> <<"AddOverflow", l, r>>])
                                     ELSE IOk(sum.result),
                                   stdin |-> rhs.stdin]
                         ELSE LET diff == overflowing_sub(l, r)
                              IN  [result |->
                                     IF diff.overflow
                                     THEN IErr([kind |-> "ArithmeticOverflow",
                                                overflow |-> <<"SubOverflow", l, r>>])
                                     ELSE IOk(diff.result),
                                   stdin |-> rhs.stdin]
      [] expr.tag = "Let" ->
            LET init == evaluate_expr(symbol_table, stdin, expr.init_expr)
            IN  IF ~init.result.ok THEN init
                ELSE evaluate_expr(
                        declare_name(interp_enter_scope(symbol_table),
                                     expr.variable_name, init.result.value),
                        init.stdin, expr.body)

\* the Result of the interpreter started on the given standard input
interp_expr(stdin, expr) == evaluate_expr(<<>>, stdin, expr).result

(***************************************************************************)
(* The Renamer (backend/src/uniquify.rs).                                  *)
(* The pass state is (name_gen.index, symbol_table); symbol_table is a     *)
(* sequence of scopes, each a map source name -> unique name.              *)
(***************************************************************************)
enter_scope(symbol_table) == Append(symbol_table, <<>>)

exit_scope(symbol_table) == SubSeq(symbol_table, 1, Len(symbol_table) - 1)

\* a variant that leaves name_gen.index where it was
gen_and_declare_unique_name_stale_index(index, symbol_table, src_name) ==
    LET g == generate("x", index)
    IN  [unique_name |-> g.name,
         index |-> index,
         symbol_table |-> [symbol_table EXCEPT ![Len(symbol_table)] =
                              (src_name :> g.name) @@ @]]

\* a variant that numbers the source name instead of the prefix x
gen_and_declare_unique_name_from_source(index, symbol_table, src_name) ==
    LET g == generate(src_name, index)
    IN  [unique_name |-> g.name,
         index |-> g.index,
         symbol_table |-> [symbol_table EXCEPT ![Len(symbol_table)] =
                              (src_name :> g.name) @@ @]]

\* returns the generated name and the updated pass state
gen_and_declare_unique_name(index, symbol_table, src_name) ==
    LET g == generate("x", index)
    IN  [unique_name |-> g.name,
         index |-> g.index,
         symbol_table |-> [symbol_table EXCEPT ![Len(symbol_table)] =
                              (src_name :> g.name) @@ @]]

\* a variant without rev(): the outermost scope that holds the name wins
lookup_outermost_first(symbol_table, name) ==
    LET hits == {i \in 1..Len(symbol_table) : name \in DOMAIN symbol_table[i]}
    IN  IF hits = {} THEN [some |-> FALSE]
        ELSE [some |-> TRUE,
              value |-> symbol_table[CHOOSE i \in hits : \A j \in hits : i <= j][name]]

\* a variant that searches the innermost scope alone
lookup_innermost_scope_only(symbol_table, name) ==
    IF symbol_table # <<>> /\ name \in DOMAIN symbol_table[Len(symbol_table)]
    THEN [some |-> TRUE, value |-> symbol_table[Len(symbol_table)][name]]
    ELSE [some |-> FALSE]

\* iter().rev().find_map(|table| table.get(name))
lookup(symbol_table, name) ==
    LET hits == {i \in 1..Len(symbol_table) : name \in DOMAIN symbol_table[i]}
    IN  IF hits = {} THEN [some |-> FALSE]
        ELSE [some |-> TRUE,
              value |-> symbol_table[CHOOSE i \in hits : \A j \in hits : j <= i][name]]

UOk(expr, index, symbol_table) ==
    [ok |-> TRUE, expr |-> expr, index |-> index, symbol_table |-> symbol_table]

UErr(e) == [ok |-> FALSE, err |-> e]

\* returns the Result and, when Ok, the pass state after the call; `?`
\* returns an Err at once
RECURSIVE run_on_expr(_, _, _)
run_on_expr(index, symbol_table, expr) ==
    CASE expr.tag = "Integer" -> UOk(Integer(expr.val), index, symbol_table)
      [] expr.tag = "Read" -> UOk(Read, index, symbol_table)
      [] expr.tag = "Identifier" ->
            LET found == lookup(symbol_table, expr.name)
            IN  IF found.some THEN UOk(Identifier(found.value), index, symbol_table)
                ELSE UErr([kind |-> "UnknownIdentifier", name |-> expr.name])
      [] expr.tag = "UnaryOperation" ->
            LET operand == run_on_expr(index, symbol_table, expr.operand)
            IN  IF ~operand.ok THEN operand
                ELSE UOk(UnaryOperation(expr.kind, operand.expr),
                         operand.index, operand.symbol_table)
      [] expr.tag = "BinaryOperation" ->
            LET left == run_on_expr(index, symbol_table, expr.left_operand)
            IN  IF ~left.ok THEN left
                ELSE LET right == run_on_expr(left.index, left.symbol_table,
                                              expr.right_operand)
                     IN  IF ~right.ok THEN right
                         ELSE UOk(BinaryOperation(expr.kind, left.expr, right.expr),
                                  right.index, right.symbol_table)
      [] expr.tag = "Let" ->
            LET init == run_on_expr(index, symbol_table, expr.init_expr)
            IN  IF ~init.ok THEN init
                ELSE LET decl == gen_and_declare_unique_name(
                                    init.index, enter_scope(init.symbol_table),
                                    expr.variable_name)
                         body == run_on_expr(decl.index, decl.symbol_table, expr.body)
                     IN  IF ~body.ok THEN body
                         ELSE UOk(Let(decl.unique_name, init.expr, body.expr),
                                  body.index, exit_scope(body.symbol_table))

\* Result<Expr, PassError>
uniquify_expr(expr) ==
    LET r == run_on_expr(0, <<>>, expr)
    IN  IF r.ok THEN [ok |-> TRUE, expr |-> r.expr]
        ELSE [ok |-> FALSE, err |-> r.err]

(***************************************************************************)
(* The Flattener (backend/src/remove_complex_operands.rs).                 *)
(* The pass state is name_gen.index of the "tmp" generator.  A             *)
(* subexpr_list is a sequence of <<name, initializer>> pairs.              *)
(***************************************************************************)
Reverse(s) == [i \in 1..Len(s) |-> s[Len(s) + 1 - i]]

\* iterator.fold(init, |body, (variable_name, init_expr)| Let {..}), the
\* bindings taken in the iterator's order
RECURSIVE fold_lets(_, _)
fold_lets(bindings, body) ==
    IF bindings = <<>> THEN body
    ELSE fold_lets(Tail(bindings), Let(Head(bindings)[1], Head(bindings)[2], body))

\* a variant that inserts the binding at the front of the list
hoist_front(index, subexpr_list, expr) ==
    LET g == generate("tmp", index)
    IN  [expr |-> Identifier(g.name),
         subexpr_list |-> <<<<g.name, expr>>>> \o subexpr_list,
         index |-> g.index]

\* a variant that names the temporaries with the Renamer's prefix
hoist_renamer_prefix(index, subexpr_list, expr) ==
    LET g == generate("x", index)
    IN  [expr |-> Identifier(g.name),
         subexpr_list |-> Append(subexpr_list, <<g.name, expr>>),
         index |-> g.index]

\* name_gen.generate(); subexpr_list.push((name, expr)); (Identifier(name), list)
hoist(index, subexpr_list, expr) ==
    LET g == generate("tmp", index)
    IN  [expr |-> Identifier(g.name),
         subexpr_list |-> Append(subexpr_list, <<g.name, expr>>),
         index |-> g.index]

RECURSIVE rco_atom(_, _)
RECURSIVE rco_expr(_, _)
rco_atom(index, expr) ==
    CASE expr.tag = "Integer" ->
            [expr |-> Integer(expr.val), subexpr_list |-> <<>>, index |-> index]
      [] expr.tag = "Read" ->
            [expr |-> Read, subexpr_list |-> <<>>, index |-> index]
      [] expr.tag = "Identifier" ->
            [expr |-> Identifier(expr.name), subexpr_list |-> <<>>, index |-> index]
      [] expr.tag = "UnaryOperation" ->
            LET operand == rco_atom(index, expr.operand)
            IN  hoist(operand.index, operand.subexpr_list,
                      UnaryOperation(expr.kind, operand.expr))
      [] expr.tag = "BinaryOperation" ->
            LET left == rco_atom(index, expr.left_operand)
                right == rco_atom(left.index, expr.right_operand)
            IN  hoist(right.index, left.subexpr_list \o right.subexpr_list,
                      BinaryOperation(expr.kind, left.expr, right.expr))
      [] expr.tag = "Let" ->
            LET init == rco_expr(index, expr.init_expr)
                body == rco_expr(init.index, expr.body)
            IN  [expr |-> Let(expr.variable_name, init.expr, body.expr),
                 subexpr_list |-> <<>>,
                 index |-> body.index]

rco_expr(index, expr) ==
    CASE expr.tag = "Integer" -> [expr |-> Integer(expr.val), index |-> index]
      [] expr.tag = "Read" -> [expr |-> Read, index |-> index]
      [] expr.tag = "Identifier" -> [expr |-> Identifier(expr.name), index |-> index]
      [] expr.tag = "UnaryOperation" ->
            LET operand == rco_atom(index, expr.operand)
            IN  [expr |-> fold_lets(Reverse(operand.subexpr_list),
                                    UnaryOperation(expr.kind, operand.expr)),
                 index |-> operand.index]
      [] expr.tag = "BinaryOperation" ->
            LET left == rco_atom(index, expr.left_operand)
                right == rco_atom(left.index, expr.right_operand)
            IN  [expr |-> fold_lets(Reverse(right.subexpr_list)
                                        \o Reverse(left.subexpr_list),
                                    BinaryOperation(expr.kind, left.expr, right.expr)),
                 index |-> right.index]
      [] expr.tag = "Let" ->
            LET init == rco_expr(index, expr.init_expr)
                body == rco_expr(init.index, expr.body)
            IN  [expr |-> Let(expr.variable_name, init.expr, body.expr),
                 index |-> body.index]

\* a variant that flattens the root as an operand and binds it as well
remove_complex_operands_hoist_root(expr) ==
    LET a == rco_atom(0, expr)
    IN  [expr |-> fold_lets(Reverse(a.subexpr_list), a.expr), index |-> a.index]

\* RCOImpl::new().rco_expr(expr); `index` is the generator's final index,
\* the number of temporaries the pass generated
remove_complex_operands(expr) == rco_expr(0, expr)

(***************************************************************************)
(* The Three-Address Program (backend/src/ir/cvar.rs).                     *)
(***************************************************************************)
AtomInteger(val) == [tag |-> "Integer", val |-> val]

AtomVariable(name) == [tag |-> "Variable", name |-> name]

CAtom(atom) == [tag |-> "Atom", atom |-> atom]

CRead == [tag |-> "Read"]

CUnaryOperation(kind, operand) ==
    [tag |-> "UnaryOperation", kind |-> kind, operand |-> operand]

CBinaryOperation(kind, left_operand, right_operand) ==
    [tag |-> "BinaryOperation", kind |-> kind,
     left_operand |-> left_operand, right_operand |-> right_operand]

Assign(lhs, rhs) == [tag |-> "Assign", lhs |-> lhs, rhs |-> rhs]

Return(expr) == [tag |-> "Return", expr |-> expr]

CProgram_new == [locals |-> <<>>, body |-> <<>>]

\* a variant that does not push the Return
create_terminator_dropped(program, expr) == program

create_terminator(program, expr) ==
    [program EXCEPT !.body = Append(@, Return(expr))]

\* a variant that inserts the Assign at the front of the body
create_assign_front(program, lhs, rhs) ==
    [program EXCEPT !.body = <<Assign(lhs, rhs)>> \o @]

create_assign(program, lhs, rhs) ==
    [program EXCEPT !.body = Append(@, Assign(lhs, rhs))]

\* a variant that inserts the name at the front of locals
create_local_variable_front(program, name) ==
    [program EXCEPT !.locals = <<name>> \o @]

create_local_variable(program, name) ==
    [program EXCEPT !.locals = Append(@, name)]

(***************************************************************************)
(* The Explicator (backend/src/explicate_control.rs).                      *)
(* unreachable!() aborts the pass: a result with panic = TRUE carries no   *)
(* program.                                                                *)
(***************************************************************************)
Panic == [panic |-> TRUE]

gen_atom(expr) ==
    CASE expr.tag = "Integer" -> [panic |-> FALSE, atom |-> AtomInteger(as_i64(expr.val))]
      [] expr.tag = "Identifier" -> [panic |-> FALSE, atom |-> AtomVariable(expr.name)]
      [] OTHER -> Panic

\* returns the updated result_program and the CExpr
RECURSIVE explicate_assign(_, _)
explicate_assign(self, expr) ==
    CASE expr.tag = "Integer" ->
            [panic |-> FALSE, self |-> self, rhs |-> CAtom(AtomInteger(as_i64(expr.val)))]
      [] expr.tag = "Read" ->
            [panic |-> FALSE, self |-> self, rhs |-> CRead]
      [] expr.tag = "Identifier" ->
            [panic |-> FALSE, self |-> self, rhs |-> CAtom(AtomVariable(expr.name))]
      [] expr.tag = "UnaryOperation" ->
            LET operand == gen_atom(expr.operand)
            IN  IF operand.panic THEN Panic
                ELSE [panic |-> FALSE, self |-> self,
                      rhs |-> CUnaryOperation(expr.kind, operand.atom)]
      [] expr.tag = "BinaryOperation" ->
            LET left == gen_atom(expr.left_operand)
                right == gen_atom(expr.right_operand)
            IN  IF left.panic \/ right.panic THEN Panic
                ELSE [panic |-> FALSE, self |-> self,
                      rhs |-> CBinaryOperation(expr.kind, left.atom, right.atom)]
      [] expr.tag = "Let" ->
            LET init == explicate_assign(self, expr.init_expr)
            IN  IF init.panic THEN Panic
                ELSE explicate_assign(
                        create_assign(
                            create_local_variable(init.self, expr.variable_name),
                            expr.variable_name, init.rhs),
                        expr.body)

RECURSIVE explicate_tail(_, _)
explicate_tail(self, expr) ==
    IF expr.tag = "Let"
    THEN LET rhs == explicate_assign(self, expr.init_expr)
         IN  IF rhs.panic THEN Panic
             ELSE explicate_tail(
                     create_assign(
                         create_local_variable(rhs.self, expr.variable_name),
                         expr.variable_name, rhs.rhs),
                     expr.body)
    ELSE LET operand == explicate_assign(self, expr)
         IN  IF operand.panic THEN Panic
             ELSE [panic |-> FALSE,
                   result_program |-> create_terminator(operand.self, operand.rhs)]

explicate_control(expr) == explicate_tail(CProgram_new, expr)

(***************************************************************************)
(* Pseudo-assembly (backend/src/ir/x86.rs).  An immediate is an i64 bit    *)
(* pattern; a Deref offset is an i64 held as an integer (the offsets the   *)
(* passes compute are small multiples of 8).                               *)
(***************************************************************************)
RAX == "RAX"

RBP == "RBP"

Imm(value) == [tag |-> "Imm", value |-> value]

Reg(reg) == [tag |-> "Reg", reg |-> reg]

Deref(reg, offset) == [tag |-> "Deref", reg |-> reg, offset |-> offset]

Variable(name) == [tag |-> "Variable", name |-> name]

Addq(lhs, rhs) == [tag |-> "Addq", lhs |-> lhs, rhs |-> rhs]

Subq(lhs, rhs) == [tag |-> "Subq", lhs |-> lhs, rhs |-> rhs]

Negq(operand) == [tag |-> "Negq", operand |-> operand]

Movq(from, to) == [tag |-> "Movq", from |-> from, to |-> to]

Pushq(operand) == [tag |-> "Pushq", operand |-> operand]

Popq(operand) == [tag |-> "Popq", operand |-> operand]

Callq(callee) == [tag |-> "Callq", callee |-> callee]

Retq == [tag |-> "Retq"]

Jmp(target) == [tag |-> "Jmp", target |-> target]

Block_new(label) == [label |-> label, instructions |-> <<>>]

add_instr(block, instr) ==
    [block EXCEPT !.instructions = Append(@, instr)]

\* Program::new: the Program of x86.rs has the single field body
VarProgram_new == [body |-> <<>>]

(***************************************************************************)
(* The textual rendering (impl Display, backend/src/ir/x86.rs).            *)
(***************************************************************************)
reg_to_string(reg) ==
    CASE reg = "RSP" -> "%rsp" [] reg = "RBP" -> "%rbp"
      [] reg = "RAX" -> "%rax" [] reg = "RBX" -> "%rbx"
      [] reg = "RCX" -> "%rcx" [] reg = "RDX" -> "%rdx"
      [] reg = "RSI" -> "%rsi" [] reg = "RDI" -> "%rdi"
      [] reg = "R8" -> "%r8" [] reg = "R9" -> "%r9"
      [] reg = "R10" -> "%r10" [] reg = "R11" -> "%r11"
      [] reg = "R12" -> "%r12" [] reg = "R13" -> "%r13"
      [] reg = "R14" -> "%r14" [] reg = "R15" -> "%r15"

HexDigits ==
    <<"0", "1", "2", "3", "4", "5", "6", "7", "8", "9", "a", "b", "c", "d", "e", "f">>

\* the bit pattern of an i64 offset
offset_bits(offset) ==
    IF offset >= 0 THEN U64(offset) ELSE wrapping_neg(U64(-offset))

\* the 16 hexadecimal digits of a bit pattern, most significant first
Nibbles(bits) ==
    [i \in 1..16 |->
        LET limb == bits[4 - ((i - 1) \div 4)]
            shift == 3 - ((i - 1) % 4)
        IN  (limb \div (16 ^ shift)) % 16]

RECURSIVE Concat(_)
Concat(strings) ==
    IF strings = <<>> THEN "" ELSE Head(strings) \o Concat(Tail(strings))

\* format!("{:x}", value) of an i64: the two's complement bit pattern in
\* hexadecimal, without leading zeros and without a sign
lower_hex(bits) ==
    LET nibbles == Nibbles(bits)
        first == IF \E i \in 1..16 : nibbles[i] # 0
                 THEN CHOOSE i \in 1..16 :
                        nibbles[i] # 0 /\ \A j \in 1..(i - 1) : nibbles[j] = 0
                 ELSE 16
    IN  Concat([i \in 1..(17 - first) |-> HexDigits[nibbles[first + i - 1] + 1]])

arg_to_string(arg) ==
    CASE arg.tag = "Imm" -> "$0x" \o lower_hex(arg.value)
      [] arg.tag = "Reg" -> reg_to_string(arg.reg)
      [] arg.tag = "Deref" ->
            lower_hex(offset_bits(arg.offset)) \o "(" \o reg_to_string(arg.reg) \o ")"
      [] arg.tag = "Variable" -> arg.name

instr_to_string(instr) ==
    CASE instr.tag = "Addq" ->
            "addq    " \o arg_to_string(instr.rhs) \o ", " \o arg_to_string(instr.lhs)
      [] instr.tag = "Subq" ->
            "subq    " \o arg_to_string(instr.rhs) \o ", " \o arg_to_string(instr.lhs)
      [] instr.tag = "Negq" -> "negq    " \o arg_to_string(instr.operand)
      [] instr.tag = "Movq" ->
            "movq    " \o arg_to_string(instr.from) \o ", " \o arg_to_string(instr.to)
      [] instr.tag = "Pushq" -> "pushq   " \o arg_to_string(instr.operand)
      [] instr.tag = "Popq" -> "popq    " \o arg_to_string(instr.operand)
      [] instr.tag = "Callq" -> "callq   " \o instr.callee
      [] instr.tag = "Retq" -> "retq"
      [] instr.tag = "Jmp" -> "jmp     " \o instr.target

block_to_string(block) ==
    block.label \o ":\n" \o
        Concat([i \in DOMAIN block.instructions |->
                    "    " \o instr_to_string(block.instructions[i]) \o "\n"])

program_to_string(program) ==
    Concat([b \in DOMAIN program.body |-> block_to_string(program.body[b])])

(***************************************************************************)
(* The Instruction Selector (backend/src/select_instructions.rs).          *)
(***************************************************************************)
read_int_func_name == "read_int"

rax_reg == Reg(RAX)

\* an Option<VarInstr>
generate_result_target(actual_result, expected_result) ==
    IF actual_result.tag = "Variable" /\ actual_result = expected_result
    THEN [some |-> FALSE]
    ELSE [some |-> TRUE, value |-> Movq(expected_result, actual_result)]

handle_atom(atom) ==
    CASE atom.tag = "Integer" -> Imm(atom.val)
      [] atom.tag = "Variable" -> Variable(atom.name)

\* a variant that emits the operator before the move of its operand
handle_expr_operator_first(expr, result, target_block) ==
    CASE expr.tag = "Atom" ->
            add_instr(target_block, Movq(handle_atom(expr.atom), result))
      [] expr.tag = "Read" ->
            add_instr(add_instr(target_block, Callq(read_int_func_name)),
                      Movq(rax_reg, result))
      [] expr.tag = "UnaryOperation" ->
            LET instr == generate_result_target(result, handle_atom(expr.operand))
                negated == add_instr(target_block, Negq(result))
            IN  IF instr.some THEN add_instr(negated, instr.value) ELSE negated
      [] expr.tag = "BinaryOperation" ->
            LET instr == generate_result_target(result, handle_atom(expr.left_operand))
                rhs == handle_atom(expr.right_operand)
                applied == add_instr(target_block,
                                     IF expr.kind = "Add" THEN Addq(result, rhs)
                                     ELSE Subq(result, rhs))
            IN  IF instr.some THEN add_instr(applied, instr.value) ELSE applied

\* returns target_block with the instructions of expr appended
handle_expr(expr, result, target_block) ==
    CASE expr.tag = "Atom" ->
            add_instr(target_block, Movq(handle_atom(expr.atom), result))
      [] expr.tag = "Read" ->
            add_instr(add_instr(target_block, Callq(read_int_func_name)),
                      Movq(rax_reg, result))
      [] expr.tag = "UnaryOperation" ->
            LET instr == generate_result_target(result, handle_atom(expr.operand))
                moved == IF instr.some THEN add_instr(target_block, instr.value)
                         ELSE target_block
            IN  (CASE expr.kind = "Minus" -> add_instr(moved, Negq(result)))
      [] expr.tag = "BinaryOperation" ->
            LET instr == generate_result_target(result, handle_atom(expr.left_operand))
                moved == IF instr.some THEN add_instr(target_block, instr.value)
                         ELSE target_block
            IN  (CASE expr.kind = "Add" ->
                        add_instr(moved, Addq(result, handle_atom(expr.right_operand)))
                   [] expr.kind = "Sub" ->
                        add_instr(moved, Subq(result, handle_atom(expr.right_operand))))

\* a variant whose Return jumps before its operand is computed
handle_stmt_jump_first(stmt, target_block) ==
    CASE stmt.tag = "Assign" ->
            handle_expr(stmt.rhs, Variable(stmt.lhs), target_block)
      [] stmt.tag = "Return" ->
            handle_expr(stmt.expr, rax_reg,
                        add_instr(target_block, Jmp("conclusion")))

handle_stmt(stmt, target_block) ==
    CASE stmt.tag = "Assign" ->
            handle_expr(stmt.rhs, Variable(stmt.lhs), target_block)
      [] stmt.tag = "Return" ->
            add_instr(handle_expr(stmt.expr, rax_reg, target_block),
                      Jmp("conclusion"))

\* program.body.into_iter().for_each(|stmt| handle_stmt(stmt, &mut main_block))
RECURSIVE for_each_stmt(_, _)
for_each_stmt(body, main_block) ==
    IF body = <<>> THEN main_block
    ELSE for_each_stmt(Tail(body), handle_stmt(Head(body), main_block))

\* returns self.result_program
handle_program(result_program, program) ==
    LET main_block == for_each_stmt(program.body, Block_new("main"))
        conclusion_block == Block_new("conclusion")
    IN  [result_program EXCEPT !.body = Append(Append(@, main_block), conclusion_block)]

select_instructions(program) == handle_program(VarProgram_new, program)

(***************************************************************************)
(* The Home Assigner (backend/src/assign_homes.rs).  unwrap() on a missing *)
(* offset aborts the pass: panic = TRUE carries no program.                *)
(***************************************************************************)
rbp_reg(offset) == Deref(RBP, offset)

\* a variant that numbers the slots from 0
assign_homes_for_variables_from_zero(variables) ==
    [name \in {variables[i] : i \in DOMAIN variables} |->
        LET i == CHOOSE k \in DOMAIN variables :
                    /\ variables[k] = name
                    /\ \A j \in DOMAIN variables : variables[j] = name => j <= k
        IN  (-8) * (i - 1)]

\* variable_locations: the i-th name is inserted with offset -8 * i, a later
\* insert of the same name replacing the earlier one
assign_homes_for_variables(variables) ==
    [name \in {variables[i] : i \in DOMAIN variables} |->
        LET i == CHOOSE k \in DOMAIN variables :
                    /\ variables[k] = name
                    /\ \A j \in DOMAIN variables : variables[j] = name => j <= k
        IN  (-8) * i]

\* a variant that leaves a variable without an offset in place
modify_arg_lenient(variable_locations, arg) ==
    IF arg.tag = "Variable" /\ arg.name \in DOMAIN variable_locations
    THEN [panic |-> FALSE, arg |-> rbp_reg(variable_locations[arg.name])]
    ELSE [panic |-> FALSE, arg |-> arg]

\* a variant that leaves a symbolic variable in place
modify_arg_skip(variable_locations, arg) ==
    IF arg.tag = "Variable" /\ arg.name \notin DOMAIN variable_locations
    THEN Panic
    ELSE [panic |-> FALSE, arg |-> arg]

modify_arg(variable_locations, arg) ==
    IF arg.tag = "Variable"
    THEN IF arg.name \in DOMAIN variable_locations
         THEN [panic |-> FALSE, arg |-> rbp_reg(variable_locations[arg.name])]
         ELSE Panic
    ELSE [panic |-> FALSE, arg |-> arg]

\* the closure of modify_block, on one instruction
modify_instr(variable_locations, instr) ==
    CASE instr.tag \in {"Addq", "Subq"} ->
            LET lhs == modify_arg(variable_locations, instr.lhs)
                rhs == modify_arg(variable_locations, instr.rhs)
            IN  IF lhs.panic \/ rhs.panic THEN Panic
                ELSE [panic |-> FALSE,
                      instr |-> [instr EXCEPT !.lhs = lhs.arg, !.rhs = rhs.arg]]
      [] instr.tag = "Movq" ->
            LET lhs == modify_arg(variable_locations, instr.from)
                rhs == modify_arg(variable_locations, instr.to)
            IN  IF lhs.panic \/ rhs.panic THEN Panic
                ELSE [panic |-> FALSE,
                      instr |-> [instr EXCEPT !.from = lhs.arg, !.to = rhs.arg]]
      [] instr.tag \in {"Negq", "Pushq", "Popq"} ->
            LET operand == modify_arg(variable_locations, instr.operand)
            IN  IF operand.panic THEN Panic
                ELSE [panic |-> FALSE,
                      instr |-> [instr EXCEPT !.operand = operand.arg]]
      [] instr.tag \in {"Callq", "Retq", "Jmp"} ->
            [panic |-> FALSE, instr |-> instr]

modify_block(variable_locations, block) ==
    LET modified == [i \in DOMAIN block.instructions |->
                        modify_instr(variable_locations, block.instructions[i])]
    IN  IF \E i \in DOMAIN modified : modified[i].panic THEN Panic
        ELSE [panic |-> FALSE,
              block |-> [block EXCEPT !.instructions =
                            [i \in DOMAIN modified |-> modified[i].instr]]]

modify_program(variable_locations, program_body) ==
    LET modified == [i \in DOMAIN program_body |->
                        modify_block(variable_locations, program_body[i])]
    IN  IF \E i \in DOMAIN modified : modified[i].panic THEN Panic
        ELSE [panic |-> FALSE,
              body |-> [i \in DOMAIN modified |-> modified[i].block]]

\* a variant that keeps the variable list
assign_homes_keep_list(program) ==
    LET variable_locations == assign_homes_for_variables(program.local_variables)
        body == modify_program(variable_locations, program.body)
    IN  IF body.panic THEN Panic
        ELSE [panic |-> FALSE,
              program |-> [program EXCEPT !.body = body.body]]

\* The program as assign_homes and patch_instructions take it: they read a
\* field local_variables (assign_homes.rs:67, patch_instructions.rs:102)
\* that the Program of x86.rs does not declare.  Nothing the Selector does
\* puts a name in it, so a program built by Program::new and handle_program
\* reaches assign_homes with no variable declared.
as_var_program(program) ==
    IF "local_variables" \in DOMAIN program THEN program
    ELSE [local_variables |-> <<>>, body |-> program.body]

assign_homes(program) ==
    LET variable_locations == assign_homes_for_variables(program.local_variables)
        body == modify_program(variable_locations, program.body)
    IN  IF body.panic THEN Panic
        ELSE [panic |-> FALSE,
              program |-> [local_variables |-> <<>>, body |-> body.body]]

(***************************************************************************)
(* The Legalizer (backend/src/patch_instructions.rs).                      *)
(***************************************************************************)
\* the i64 comparison a > b
i64_gt(a, b) ==
    IF is_negative(a) # is_negative(b) THEN is_negative(b)
    ELSE \E i \in 1..4 :
            /\ a[i] > b[i]
            /\ \A j \in (i + 1)..4 : a[j] = b[j]

\* 0x10000
Threshold == <<0, 1, 0, 0>>

\* a variant whose large-immediate rules for Add and Sub also match a
\* register destination
transform_instr_any_destination(instr) ==
    CASE instr.tag \in {"Addq", "Subq"}
            /\ instr.lhs.tag \in {"Deref", "Reg"}
            /\ instr.rhs.tag = "Imm"
            /\ i64_gt(instr.rhs.value, Threshold) ->
            <<Movq(Imm(instr.rhs.value), Reg(RAX)),
              [instr EXCEPT !.rhs = Reg(RAX)]>>
      [] instr.tag \in {"Addq", "Subq"}
            /\ instr.lhs.tag = "Deref" /\ instr.rhs.tag = "Deref" ->
            <<Movq(instr.rhs, Reg(RAX)), [instr EXCEPT !.rhs = Reg(RAX)]>>
      [] instr.tag = "Movq" /\ instr.from.tag = "Deref" /\ instr.to.tag = "Deref" ->
            <<Movq(instr.from, Reg(RAX)), Movq(Reg(RAX), instr.to)>>
      [] instr.tag = "Movq" /\ instr.from.tag = "Imm" /\ instr.to.tag = "Deref"
            /\ i64_gt(instr.from.value, Threshold) ->
            <<Movq(instr.from, Reg(RAX)), Addq(instr.to, Reg(RAX))>>
      [] OTHER -> <<instr>>

\* a variant that lets a memory-to-memory move through
transform_instr_keep_move(instr) ==
    CASE instr.tag \in {"Addq", "Subq"}
            /\ instr.lhs.tag = "Deref"
            /\ (instr.rhs.tag = "Deref"
                  \/ (instr.rhs.tag = "Imm" /\ i64_gt(instr.rhs.value, Threshold))) ->
            <<Movq(instr.rhs, Reg(RAX)), [instr EXCEPT !.rhs = Reg(RAX)]>>
      [] instr.tag = "Movq" /\ instr.from.tag = "Imm" /\ instr.to.tag = "Deref"
            /\ i64_gt(instr.from.value, Threshold) ->
            <<Movq(instr.from, Reg(RAX)), Addq(instr.to, Reg(RAX))>>
      [] OTHER -> <<instr>>

\* the closure of transform_block: the instructions added to result for one
\* instruction of the block
transform_instr(instr) ==
    CASE instr.tag = "Addq" /\ instr.lhs.tag = "Deref" /\ instr.rhs.tag = "Deref" ->
            <<Movq(Deref(instr.rhs.reg, instr.rhs.offset), Reg(RAX)),
              Addq(Deref(instr.lhs.reg, instr.lhs.offset), Reg(RAX))>>
      [] instr.tag = "Subq" /\ instr.lhs.tag = "Deref" /\ instr.rhs.tag = "Deref" ->
            <<Movq(Deref(instr.rhs.reg, instr.rhs.offset), Reg(RAX)),
              Subq(Deref(instr.lhs.reg, instr.lhs.offset), Reg(RAX))>>
      [] instr.tag = "Movq" /\ instr.from.tag = "Deref" /\ instr.to.tag = "Deref" ->
            <<Movq(Deref(instr.from.reg, instr.from.offset), Reg(RAX)),
              Movq(Reg(RAX), Deref(instr.to.reg, instr.to.offset))>>
      [] instr.tag = "Addq" /\ instr.lhs.tag = "Deref" /\ instr.rhs.tag = "Imm"
            /\ i64_gt(instr.rhs.value, Threshold) ->
            <<Movq(Imm(instr.rhs.value), Reg(RAX)),
              Addq(Deref(instr.lhs.reg, instr.lhs.offset), Reg(RAX))>>
      [] instr.tag = "Subq" /\ instr.lhs.tag = "Deref" /\ instr.rhs.tag = "Imm"
            /\ i64_gt(instr.rhs.value, Threshold) ->
            <<Movq(Imm(instr.rhs.value), Reg(RAX)),
              Subq(Deref(instr.lhs.reg, instr.lhs.offset), Reg(RAX))>>
      [] instr.tag = "Movq" /\ instr.from.tag = "Imm" /\ instr.to.tag = "Deref"
            /\ i64_gt(instr.from.value, Threshold) ->
            <<Movq(Imm(instr.from.value), Reg(RAX)),
              Addq(Deref(instr.to.reg, instr.to.offset), Reg(RAX))>>
      [] OTHER -> <<instr>>

\* instructions.into_iter().for_each(...): result after the given instructions
RECURSIVE for_each_instr(_, _)
for_each_instr(instructions, result) ==
    IF instructions = <<>> THEN result
    ELSE for_each_instr(
            Tail(instructions),
            [result EXCEPT !.instructions = @ \o transform_instr(Head(instructions))])

\* a variant that adds the result of each instruction to the block itself
transform_block_in_place(block) == for_each_instr(block.instructions, block)

transform_block(block) == for_each_instr(block.instructions, Block_new(block.label))

patch_instructions(program) ==
    [local_variables |-> program.local_variables,
     body |-> [i \in DOMAIN program.body |-> transform_block(program.body[i])]]

(***************************************************************************)
(* The meaning of the arithmetic and move instructions (backend/src/ir/    *)
(* x86.rs: `addq a, b` adds rhs a to lhs b, `subq a, b` is b - a, `movq    *)
(* a, b` copies from a to b), on a machine state of registers and of the   *)
(* stack slots addressed from RBP.  Arithmetic wraps.                      *)
(***************************************************************************)
read_arg(s, arg) ==
    CASE arg.tag = "Imm" -> arg.value
      [] arg.tag = "Reg" -> s.regs[arg.reg]
      [] arg.tag = "Deref" -> s.mem[arg.offset]
      [] arg.tag = "Variable" -> s.vars[arg.name]

write_arg(s, arg, value) ==
    CASE arg.tag = "Reg" -> [s EXCEPT !.regs[arg.reg] = value]
      [] arg.tag = "Deref" -> [s EXCEPT !.mem[arg.offset] = value]
      [] arg.tag = "Variable" -> [s EXCEPT !.vars[arg.name] = value]

\* read_int leaves the integer read in the accumulator; a Jmp or Retq ends
\* the block and changes no register or memory
exec(s, instr) ==
    CASE instr.tag = "Addq" ->
            write_arg(s, instr.lhs,
                      wrapping_add(read_arg(s, instr.lhs), read_arg(s, instr.rhs)))
      [] instr.tag = "Subq" ->
            write_arg(s, instr.lhs,
                      wrapping_sub(read_arg(s, instr.lhs), read_arg(s, instr.rhs)))
      [] instr.tag = "Negq" ->
            write_arg(s, instr.operand, wrapping_neg(read_arg(s, instr.operand)))
      [] instr.tag = "Movq" ->
            write_arg(s, instr.to, read_arg(s, instr.from))
      [] instr.tag = "Callq" ->
            [s EXCEPT !.regs[RAX] = s.input]
      [] instr.tag \in {"Jmp", "Retq"} -> s

RECURSIVE exec_all(_, _)
exec_all(s, instructions) ==
    IF instructions = <<>> THEN s
    ELSE exec_all(exec(s, Head(instructions)), Tail(instructions))

(***************************************************************************)
(* Inputs: the Surface Expressions the passes are applied to.              *)
(***************************************************************************)
Minus == "Minus"

BinaryOpKinds == {"Add", "Sub"}

\* every operator node whose operands are drawn from A (left / init) and B
\* (right / body), Let binding a name of N
Ops(A, B, N) ==
    {UnaryOperation(Minus, a) : a \in A}
      \cup {BinaryOperation(k, a, b) : k \in BinaryOpKinds, a \in A, b \in B}
      \cup {Let(n, a, b) : n \in N, a \in A, b \in B}

\* literals and references, with 2^63 (no i64) and Read among them
Leaves ==
    {Integer(U64(1)), Integer(U64(2)), Integer(I64_MAX), Integer(I64_MIN),
     Read, Identifier("x"), Identifier("y")}

Shallow == Leaves \cup Ops(Leaves, Leaves, {"x", "y"})

SmallLeaves == {Integer(U64(1)), Identifier("x")}

Small == SmallLeaves \cup Ops(SmallLeaves, SmallLeaves, {"x", "y"})

Nested == Ops(Small, Small, {"x"})

\* let ([n a]) (op (let ([m b]) c) d): an inner binding in the left operand
\* of an operator in the body of an outer binding
ShadowLeaves == {Integer(U64(1)), Integer(U64(2)), Identifier("x")}

Shadowing ==
    {Let(n, a, BinaryOperation(k, Let(m, b, c), d)) :
        n \in {"x", "y"}, m \in {"x"}, k \in BinaryOpKinds,
        a \in ShadowLeaves, b \in ShadowLeaves, c \in ShadowLeaves,
        d \in ShadowLeaves}

\* (op (let ([x p]) a) q): a Let as the left operand of an operator whose
\* right operand is itself an operator, over literals near the i64 range
Sums ==
    {BinaryOperation("Add", a, b) :
        a \in {Integer(U64(1)), Integer(I64_MAX)},
        b \in {Integer(U64(1)), Integer(I64_MAX)}}

OperandLet ==
    {BinaryOperation(k, Let("x", p, a), q) :
        k \in BinaryOpKinds, p \in Sums \cup {Integer(U64(1))},
        a \in SmallLeaves, q \in Sums}

\* let ([x 2]) e: every expression of Nested closed by an outer binding
Enclosed == {Let("x", Integer(U64(2)), e) : e \in Nested}

\* the inputs of the repository's own tests
Neg(n) == UnaryOperation(Minus, Integer(U64(n)))

Add(a, b) == BinaryOperation("Add", a, b)

Sub(a, b) == BinaryOperation("Sub", a, b)

Tmp(i) == Identifier(generate("tmp", i).name)

TestInputs ==
    {   \* uniquify.rs:127, 134, 141, 149, 156
        Let("x", Integer(U64(0)), Identifier("x")),
        Let("x0", Integer(U64(0)), Identifier("x0")),
        Let("x1", Integer(U64(0)), Identifier("x1")),
        Let("x", Add(Integer(U64(1)), Integer(U64(2))),
            Add(Let("x", Identifier("x"), Identifier("x")), Identifier("x"))),
        Let("x0", Let("x0", Integer(U64(1)), Add(Identifier("x0"), Integer(U64(2)))),
            UnaryOperation(Minus, Identifier("x0"))),
        \* remove_complex_operands.rs:188, 194, 202
        Let("x", Add(Integer(U64(42)), Neg(10)), Add(Identifier("x"), Integer(U64(10)))),
        Let("a", Integer(U64(42)), Let("b", Identifier("a"), Identifier("b"))),
        Add(Add(Neg(3), Add(Integer(U64(1)), Neg(2))),
            Sub(Add(Integer(U64(1)), Integer(U64(2))), Neg(1))),
        \* interpreter.rs:284
        Integer(U64_MAX),
        \* explicate_control.rs:109, 333 (spec.md's example negates the 20), 350
        Add(Integer(U64(1)), Integer(U64(2))),
        Let("y", Let("x1", Integer(U64(20)),
                     Let("x2", Integer(U64(22)),
                         Add(Identifier("x1"), Identifier("x2")))),
            Identifier("y")),
        Let("y", Let("x1", Neg(20),
                     Let("x2", Integer(U64(22)),
                         Add(Identifier("x1"), Identifier("x2")))),
            Identifier("y")),
        Let("tmp0", Neg(3),
         Let("tmp1", Neg(2),
          Let("tmp2", Add(Integer(U64(1)), Tmp(1)),
           Let("tmp3", Add(Tmp(0), Tmp(2)),
            Let("tmp4", Add(Integer(U64(1)), Integer(U64(2))),
             Let("tmp5", Neg(1),
              Let("tmp6", Sub(Tmp(4), Tmp(5)),
               Add(Tmp(3), Tmp(6)))))))))
    }

\* (op a b) with operators of operators on both sides
Mid ==
    {Integer(U64(1)), Neg(1), Add(Neg(1), Identifier("x")),
     Sub(Identifier("x"), Neg(2)), Add(Neg(1), Neg(2)),
     UnaryOperation(Minus, Add(Integer(U64(1)), Identifier("x")))}

Deep == {BinaryOperation(k, a, b) : k \in BinaryOpKinds, a \in Mid, b \in Mid}

\* let ([x a]) (let ([n (op l r)]) (- (- n))): a binding whose initializer
\* uses the binding it may shadow, and a body that needs a temporary
Rebinding ==
    {Let("x", a, Let(n, BinaryOperation(k, l, r),
                     UnaryOperation(Minus, UnaryOperation(Minus, Identifier(n))))) :
        n \in {"x", "y"}, k \in BinaryOpKinds, a \in {Integer(U64(1)), Read},
        l \in {Integer(U64(1)), Identifier("x")},
        r \in {Integer(U64(1)), Identifier("x")}}

\* standard inputs: closed, integers, text, a line that is not UTF-8
Stdins ==
    {<<>>,
     <<IntLine(U64(7))>>,
     <<IntLine(wrapping_neg(U64(42)))>>,
     <<IntLine(I64_MAX), IntLine(U64(1))>>,
     <<TextLine, IntLine(U64(7))>>,
     <<InvalidLine>>}

Inputs ==
    Shallow \cup Nested \cup Enclosed \cup Shadowing \cup OperandLet \cup Deep
        \cup Rebinding \cup TestInputs

(***************************************************************************)
(* Inputs: the pseudo-assembly programs assign_homes and                   *)
(* patch_instructions are applied to directly, as the repository's         *)
(* patch_instructions_test does.                                           *)
(***************************************************************************)
\* immediates on both sides of 0x10000 and of 0, registers, stack slots and
\* symbolic variables
Args ==
    {Imm(U64(1)), Imm(Threshold), Imm(U64(65537)), Imm(wrapping_neg(U64(65537))),
     Imm(I64_MIN), Reg(RAX), Reg("RBX"), Deref(RBP, -8), Deref(RBP, -16),
     Variable("a"), Variable("b")}

Instrs ==
    {Addq(l, r) : l \in Args, r \in Args}
      \cup {Subq(l, r) : l \in Args, r \in Args}
      \cup {Movq(f, t) : f \in Args, t \in Args}
      \cup {Negq(o) : o \in Args}
      \cup {Pushq(o) : o \in Args}
      \cup {Popq(o) : o \in Args}
      \cup {Callq(read_int_func_name), Retq, Jmp("conclusion")}

VarLists ==
    {<<>>, <<"a">>, <<"a", "b">>, <<"b", "a">>, <<"c", "a", "b">>, <<"a", "b", "a">>}

\* patch_instructions.rs:115-123
generate_test_program(instructions) ==
    [local_variables |-> <<>>,
     body |-> <<[label |-> "test", instructions |-> instructions]>>]

SingleInstr ==
    {[generate_test_program(<<i>>) EXCEPT !.local_variables = l] :
        i \in Instrs, l \in VarLists}

FewInstrs ==
    {Movq(Imm(U64(42)), Variable("a")), Movq(Variable("a"), Variable("b")),
     Addq(Variable("b"), Variable("a")), Subq(Deref(RBP, -8), Deref(RBP, -16)),
     Negq(Variable("b")), Movq(Imm(U64(65537)), Deref(RBP, -8)),
     Addq(Deref(RBP, -8), Imm(wrapping_neg(U64(65537))))}

TwoBlocks ==
    {[local_variables |-> l,
      body |-> <<[label |-> "main", instructions |-> <<i, j, Jmp("conclusion")>>],
                 [label |-> "conclusion", instructions |-> <<k, Retq>>]>>] :
        i \in FewInstrs, j \in FewInstrs, k \in FewInstrs,
        l \in {<<"a", "b">>, <<"b">>}}

\* patch_instructions.rs:130-143
TestPrograms ==
    {generate_test_program(
        <<Movq(Deref(RBP, -8), Deref(RBP, -16)),
          Subq(Deref(RBP, -24), Deref(RBP, -32)),
          Addq(Deref(RBP, -40), Imm(U64(65537)))>>)}

AsmInputs == SingleInstr \cup TwoBlocks \cup TestPrograms


(***************************************************************************)
(* The state machine.  Init draws either a Surface Expression (src) or a   *)
(* pseudo-assembly program (xcur).  cur is the Surface Expression the next *)
(* pass consumes and prev the one the last surface pass consumed; last and *)
(* before name the last two passes applied; result is the Result of        *)
(* uniquify_expr; tmp_index the final index of the Flattener's name        *)
(* generator; cprog the Explicator's outcome; xcur the pseudo-assembly     *)
(* program the next pass consumes, xprev the one the last pseudo-assembly  *)
(* pass consumed and xpanic whether that pass aborted; text the rendering  *)
(* of xcur.                                                                *)
(***************************************************************************)
VARIABLES src, cur, prev, last, before, result, rco_runs, tmp_index, cprog,
          xcur, xprev, xpanic, text

vars == <<src, cur, prev, last, before, result, rco_runs, tmp_index, cprog,
          xcur, xprev, xpanic, text>>

\* how many times the Flattener is applied in a row
MaxRcoRuns == 2

NotRun == [run |-> FALSE]

Init ==
    /\ \/ /\ src \in Inputs
          /\ last = "none"
          /\ xcur = NotRun
       \/ /\ src = NotRun
          /\ last = "asm"
          /\ xcur \in AsmInputs
    /\ cur = src
    /\ prev = src
    /\ before = "none"
    /\ result = NotRun
    /\ rco_runs = 0
    /\ tmp_index = 0
    /\ cprog = NotRun
    /\ xprev = NotRun
    /\ xpanic = FALSE
    /\ text = ""

\* uniquify_expr(src): the Renamer is the first pass of the pipeline
Uniquify ==
    /\ last = "none"
    /\ result' = uniquify_expr(cur)
    /\ prev' = cur
    /\ cur' = IF result'.ok THEN result'.expr ELSE cur
    /\ last' = "uniquify"
    /\ before' = last
    /\ UNCHANGED <<src, rco_runs, tmp_index, cprog, xcur, xprev, xpanic, text>>

\* remove_complex_operands(cur), on the parsed or the renamed expression or
\* on its own output
RemoveComplexOperands ==
    /\ last \in {"none", "remove_complex_operands"}
         \/ (last = "uniquify" /\ result.ok)
    /\ rco_runs < MaxRcoRuns
    /\ LET r == remove_complex_operands(cur)
       IN  /\ cur' = r.expr
           /\ tmp_index' = r.index
    /\ prev' = cur
    /\ rco_runs' = rco_runs + 1
    /\ last' = "remove_complex_operands"
    /\ before' = last
    /\ UNCHANGED <<src, result, cprog, xcur, xprev, xpanic, text>>

\* explicate_control(cur)
ExplicateControl ==
    /\ last \in {"none", "remove_complex_operands"}
         \/ (last = "uniquify" /\ result.ok)
    /\ cprog' = explicate_control(cur)
    /\ last' = "explicate_control"
    /\ before' = last
    /\ UNCHANGED <<src, cur, prev, result, rco_runs, tmp_index, xcur, xprev, xpanic, text>>

\* select_instructions(cprog), on the program the Explicator returned
SelectInstructions ==
    /\ last = "explicate_control"
    /\ ~cprog.panic
    /\ xcur' = select_instructions(cprog.result_program)
    /\ last' = "select_instructions"
    /\ before' = last
    /\ UNCHANGED <<src, cur, prev, result, rco_runs, tmp_index, cprog, xprev, xpanic, text>>

\* assign_homes(xcur), on the Selector's output or on a program given
\* directly
AssignHomes ==
    /\ last \in {"select_instructions", "asm"}
    /\ LET program == as_var_program(xcur)
           r == assign_homes(program)
       IN  /\ xpanic' = r.panic
           /\ xcur' = IF r.panic THEN program ELSE r.program
           /\ xprev' = program
    /\ last' = "assign_homes"
    /\ before' = last
    /\ UNCHANGED <<src, cur, prev, result, rco_runs, tmp_index, cprog, text>>

\* patch_instructions(xcur), on the Home Assigner's output or on a program
\* given directly
PatchInstructions ==
    /\ last = "asm" \/ (last = "assign_homes" /\ ~xpanic)
    /\ xcur' = patch_instructions(xcur)
    /\ xprev' = xcur
    /\ last' = "patch_instructions"
    /\ before' = last
    /\ UNCHANGED <<src, cur, prev, result, rco_runs, tmp_index, cprog, xpanic, text>>

\* program.to_string(), on a program given directly or returned by a pass
Display ==
    /\ last \in {"asm", "select_instructions", "patch_instructions"}
         \/ (last = "assign_homes" /\ ~xpanic)
    /\ text' = program_to_string(xcur)
    /\ last' = "to_string"
    /\ before' = last
    /\ UNCHANGED <<src, cur, prev, result, rco_runs, tmp_index, cprog, xcur, xprev,
                   xpanic>>

Next ==
    \/ Uniquify
    \/ RemoveComplexOperands
    \/ ExplicateControl
    \/ SelectInstructions
    \/ AssignHomes
    \/ PatchInstructions
    \/ Display

Spec == Init /\ [][Next]_vars

(***************************************************************************)
(* Vocabulary of the properties: positions in a Surface Expression.  A     *)
(* path is the sequence of child indices from the root; child 1 is the     *)
(* operand, the left operand or the initializer, child 2 the right operand *)
(* or the body.                                                            *)
(***************************************************************************)
Children(e) ==
    CASE e.tag = "UnaryOperation" -> <<e.operand>>
      [] e.tag = "BinaryOperation" -> <<e.left_operand, e.right_operand>>
      [] e.tag = "Let" -> <<e.init_expr, e.body>>
      [] OTHER -> <<>>

RECURSIVE Paths(_)
Paths(e) ==
    {<<>>} \cup UNION {{<<i>> \o p : p \in Paths(Children(e)[i])} :
                        i \in 1..Len(Children(e))}

RECURSIVE At(_, _)
At(e, p) == IF p = <<>> THEN e ELSE At(Children(e)[Head(p)], Tail(p))

IsPrefix(q, p) == Len(q) <= Len(p) /\ SubSeq(p, 1, Len(q)) = q

LetPaths(e) == {p \in Paths(e) : At(e, p).tag = "Let"}

RefPaths(e) == {p \in Paths(e) : At(e, p).tag = "Identifier"}

\* the Let nodes whose body holds the reference at p and that bind its name
Binders(e, p) ==
    {q \in LetPaths(e) :
        /\ Len(q) < Len(p)
        /\ IsPrefix(q, p)
        /\ p[Len(q) + 1] = 2
        /\ At(e, q).variable_name = At(e, p).name}

InnermostBinder(e, p) ==
    CHOOSE q \in Binders(e, p) : \A r \in Binders(e, p) : Len(r) <= Len(q)

Unbound(e) == {p \in RefPaths(e) : Binders(e, p) = {}}

Closed(e) == Unbound(e) = {}

\* traversal order of two leaves: initializer before body, left before right
RECURSIVE PathBefore(_, _)
PathBefore(p, q) ==
    /\ p # <<>>
    /\ q # <<>>
    /\ IF Head(p) # Head(q) THEN Head(p) < Head(q)
       ELSE PathBefore(Tail(p), Tail(q))

FirstUnbound(e) ==
    CHOOSE p \in Unbound(e) : \A q \in Unbound(e) : q = p \/ PathBefore(p, q)

ReadFree(e) == \A p \in Paths(e) : At(e, p).tag # "Read"

UniqueLetNames(e) ==
    \A p \in LetPaths(e) : \A q \in LetPaths(e) :
        p # q => At(e, p).variable_name # At(e, q).variable_name

\* every bound name is one the Renamer generates, and no two Lets share one
Renamed(e) ==
    /\ UniqueLetNames(e)
    /\ \A p \in LetPaths(e) :
          \E i \in 0..Cardinality(Paths(e)) :
              At(e, p).variable_name = generate("x", i).name

IsOperator(e) == e.tag \in {"UnaryOperation", "BinaryOperation"}

\* every operand of every operator is an Integer, a Read or an Identifier
AtomicOperands(e) ==
    \A p \in Paths(e) :
        IsOperator(At(e, p)) =>
            \A i \in 1..Len(Children(At(e, p))) :
                Children(At(e, p))[i].tag \in {"Integer", "Read", "Identifier"}

Renamer_ran == last = "uniquify"

Renamer_ok == last = "uniquify" /\ result.ok

Flattener_ran == last = "remove_complex_operands"

Explicator_returned == last = "explicate_control" /\ ~cprog.panic

(***************************************************************************)
(* Claims about the Renamer.                                               *)
(***************************************************************************)

\* C1: whenever uniquify_expr returns Ok(e'), no two distinct Let nodes of
\* e' bind the same name.
C1_RenamerUniqueness == Renamer_ok => UniqueLetNames(cur)

\* the renamed input had two Lets binding one source name
C1_Witness ==
    /\ Renamer_ok
    /\ ~UniqueLetNames(prev)
    /\ Cardinality(LetPaths(cur)) >= 2

\* C2: in the output of uniquify_expr every Identifier reference carries the
\* generated name of the innermost Let of the input that binds its source
\* name and whose body (not whose initializer) contains the reference.
C2_RenamerScoping ==
    Renamer_ok =>
        \A p \in RefPaths(prev) :
            /\ Binders(prev, p) # {}
            /\ At(cur, p) =
                  Identifier(At(cur, InnermostBinder(prev, p)).variable_name)

\* uniquify.rs:149: let ([x (+ 1 2)]) (+ (let ([x x]) x) x) becomes
\* (let ([x0 (+ 1 2)]) (+ (let ([x1 x0]) x1) x0))
C2_Witness ==
    /\ Renamer_ok
    /\ prev = Let("x", Add(Integer(U64(1)), Integer(U64(2))),
                  Add(Let("x", Identifier("x"), Identifier("x")), Identifier("x")))
    /\ cur = Let("x0", Add(Integer(U64(1)), Integer(U64(2))),
                 Add(Let("x1", Identifier("x0"), Identifier("x1")), Identifier("x0")))

\* C3: uniquify_expr returns Err(UnknownIdentifier(n)) exactly when the
\* input holds a reference with no enclosing binding in scope, n being the
\* name of the first such reference in traversal order; otherwise it
\* returns Ok; an Err carries no expression.
C3_RenamerError ==
    Renamer_ran =>
        IF Closed(prev)
        THEN result.ok /\ DOMAIN result = {"ok", "expr"}
        ELSE /\ ~result.ok
             /\ DOMAIN result = {"ok", "err"}
             /\ result.err = [kind |-> "UnknownIdentifier",
                              name |-> At(prev, FirstUnbound(prev)).name]

\* let ([x x]) y: the initializer's x is not in the scope of the binding and
\* is reported, not the later unbound y
C3_Witness ==
    /\ Renamer_ran
    /\ prev = Let("x", Identifier("x"), Identifier("y"))
    /\ result = [ok |-> FALSE, err |-> [kind |-> "UnknownIdentifier", name |-> "x"]]

\* C4: for every closed, Read-free input the renamed expression evaluates
\* to what the input evaluates to, the same value or the same error.
C4_RenamerEquivalence ==
    (Renamer_ok /\ Closed(prev) /\ ReadFree(prev)) =>
        \A stdin \in Stdins : interp_expr(stdin, cur) = interp_expr(stdin, prev)

\* let ([x 1]) (- (let ([x 2]) x) x) = 2 - 1: the inner and the outer x have
\* different initializers
C4_Witness ==
    /\ Renamer_ok
    /\ prev = Let("x", Integer(U64(1)),
                  Sub(Let("x", Integer(U64(2)), Identifier("x")), Identifier("x")))
    /\ \A stdin \in Stdins :
          /\ interp_expr(stdin, prev) = IOk(U64(1))
          /\ interp_expr(stdin, cur) = IOk(U64(1))

(***************************************************************************)
(* Claims about the Flattener.                                             *)
(***************************************************************************)

\* C5: every operand of every UnaryOperation and BinaryOperation in
\* remove_complex_operands(e) is an Integer, Read or Identifier, never a
\* nested operator and never a Let.
C5_FlattenerAtomicity == Flattener_ran => AtomicOperands(cur)

\* C6: for every closed, renamed, Read-free input the flattened expression
\* evaluates to what the input evaluates to, the same value or the same
\* first error.
C6_FlattenerEquivalence ==
    (Flattener_ran /\ Closed(prev) /\ Renamed(prev) /\ ReadFree(prev)) =>
        \A stdin \in Stdins : interp_expr(stdin, cur) = interp_expr(stdin, prev)

\* C7: remove_complex_operands applied to its own output returns it
\* unchanged; applied to an expression whose operator operands are all
\* atomic it returns the expression unchanged and generates no temporary.
C7_FlattenerIdempotence ==
    Flattener_ran =>
        /\ before = "remove_complex_operands" => cur = prev
        /\ AtomicOperands(prev) => (cur = prev /\ tmp_index = 0)

\* the second of two runs, the first of which hoisted an operand
C7_Witness ==
    /\ Flattener_ran
    /\ before = "remove_complex_operands"
    /\ rco_runs = 2
    /\ cur = prev
    /\ cur # src
    /\ \E p \in LetPaths(cur) : At(cur, p).variable_name = generate("tmp", 0).name

(***************************************************************************)
(* Claims about the Explicator.                                            *)
(***************************************************************************)
AtomVars(atom) == IF atom.tag = "Variable" THEN {atom.name} ELSE {}

\* the variables that occur as operands in a statement
StmtVars(stmt) ==
    LET e == IF stmt.tag = "Assign" THEN stmt.rhs ELSE stmt.expr
    IN  CASE e.tag = "Atom" -> AtomVars(e.atom)
          [] e.tag = "Read" -> {}
          [] e.tag = "UnaryOperation" -> AtomVars(e.operand)
          [] e.tag = "BinaryOperation" ->
                AtomVars(e.left_operand) \cup AtomVars(e.right_operand)

Body == cprog.result_program.body

Locals == cprog.result_program.locals

AssignIndices == {i \in 1..Len(Body) : Body[i].tag = "Assign"}

\* C8: the body of explicate_control(e), e flattened, holds exactly one
\* Return, which is its last statement; every other statement is an Assign.
C8_ExplicatorReturn ==
    (Explicator_returned /\ AtomicOperands(cur)) =>
        /\ Len(Body) >= 1
        /\ Body[Len(Body)].tag = "Return"
        /\ \A i \in 1..(Len(Body) - 1) : Body[i].tag = "Assign"
        /\ Cardinality({i \in 1..Len(Body) : Body[i].tag = "Return"}) = 1

\* a flattened input with a Let in tail position and a Let in an initializer
C8_Witness ==
    /\ Explicator_returned
    /\ AtomicOperands(cur)
    /\ \E p \in LetPaths(cur) : p # <<>> /\ p[Len(p)] = 1
    /\ \E p \in LetPaths(cur) : p # <<>> /\ p[Len(p)] = 2
    /\ Len(Body) >= 4
    /\ Body[Len(Body)].tag = "Return"

\* C9: for a flattened e whose Let-bound names are pairwise distinct, locals
\* holds one entry per Let of e, no entry twice, and is the sequence of the
\* lhs names of the Assign statements of the body; a Let nested in another
\* Let's initializer is listed before the enclosing Let.
C9_ExplicatorLocals ==
    (Explicator_returned /\ AtomicOperands(cur) /\ UniqueLetNames(cur)) =>
        /\ Len(Locals) = Cardinality(LetPaths(cur))
        /\ {Locals[i] : i \in 1..Len(Locals)} =
              {At(cur, p).variable_name : p \in LetPaths(cur)}
        /\ \A i \in 1..Len(Locals) : \A j \in 1..Len(Locals) :
              i # j => Locals[i] # Locals[j]
        /\ AssignIndices = 1..Len(Locals)
        /\ \A i \in 1..Len(Locals) : Body[i].lhs = Locals[i]
        /\ \A p \in LetPaths(cur) : \A q \in LetPaths(cur) :
              IsPrefix(q \o <<1>>, p) =>
                  \E i \in 1..Len(Locals) : \E j \in 1..Len(Locals) :
                      /\ i < j
                      /\ Locals[i] = At(cur, p).variable_name
                      /\ Locals[j] = At(cur, q).variable_name

\* explicate_control.rs:333 and the example of the claim:
\* let ([y (let ([x1 ..]) (let ([x2 22]) (+ x1 x2)))]) y
C9_Witness ==
    /\ Explicator_returned
    /\ before = "none"
    /\ cur = Let("y", Let("x1", Neg(20),
                          Let("x2", Integer(U64(22)),
                              Add(Identifier("x1"), Identifier("x2")))),
                 Identifier("y"))
    /\ Locals = <<"x1", "x2", "y">>
    /\ Body[4] = Return(CAtom(AtomVariable("y")))

\* C10: for a closed, renamed, flattened e, every variable that occurs as an
\* operand in statement i of the body is the lhs of an Assign at an index
\* strictly less than i and appears in locals.
C10_ExplicatorDefBeforeUse ==
    (Explicator_returned /\ AtomicOperands(cur) /\ Closed(cur)
        /\ UniqueLetNames(cur)) =>
        \A i \in 1..Len(Body) : \A v \in StmtVars(Body[i]) :
            /\ \E j \in 1..(i - 1) : Body[j].tag = "Assign" /\ Body[j].lhs = v
            /\ \E k \in 1..Len(Locals) : Locals[k] = v

\* the output of the Renamer and the Flattener, with a temporary and a
\* renamed variable used as operands
C10_Witness ==
    /\ Explicator_returned
    /\ before = "remove_complex_operands"
    /\ result # NotRun
    /\ Closed(cur)
    /\ AtomicOperands(cur)
    /\ UniqueLetNames(cur)
    /\ \E i \in 1..Len(Body) :
          /\ generate("tmp", 0).name \in StmtVars(Body[i])
          /\ generate("x", 0).name \in StmtVars(Body[i])

(***************************************************************************)
(* Vocabulary of the properties: pseudo-assembly programs.                 *)
(***************************************************************************)
Selector_ran == last = "select_instructions"

HomeAssigner_ran == last = "assign_homes"

Legalizer_ran == last = "patch_instructions"

\* the operands of an instruction
Operands(instr) ==
    CASE instr.tag \in {"Addq", "Subq"} -> {instr.lhs, instr.rhs}
      [] instr.tag = "Movq" -> {instr.from, instr.to}
      [] instr.tag \in {"Negq", "Pushq", "Popq"} -> {instr.operand}
      [] OTHER -> {}

\* the instructions that occur in a program
AllInstrs(program) ==
    UNION {{program.body[b].instructions[i] :
                i \in DOMAIN program.body[b].instructions} :
            b \in DOMAIN program.body}

\* the names of the symbolic variables that occur in a program
SymbolicNames(program) ==
    {arg.name : arg \in {a \in UNION {Operands(i) : i \in AllInstrs(program)} :
                            a.tag = "Variable"}}

\* the Three-Address Program the Selector consumed
Selected == cprog.result_program

\* the body ends in its single Return
EndsInSingleReturn(program) ==
    /\ program.body # <<>>
    /\ \A i \in DOMAIN program.body :
          program.body[i].tag = "Return" <=> i = Len(program.body)

\* C11: for a Three-Address Program whose body ends in its single Return the
\* Selector returns exactly the blocks main and conclusion, in this order;
\* conclusion is empty; the last instruction of main is Jmp conclusion and
\* no other instruction of main is a Jmp or a Retq.
C11_SelectorBlocks ==
    (Selector_ran /\ EndsInSingleReturn(Selected)) =>
        /\ Len(xcur.body) = 2
        /\ xcur.body[1].label = "main"
        /\ xcur.body[2].label = "conclusion"
        /\ xcur.body[2].instructions = <<>>
        /\ LET main == xcur.body[1].instructions
           IN  /\ main # <<>>
               /\ main[Len(main)] = Jmp("conclusion")
               /\ \A i \in 1..(Len(main) - 1) : main[i].tag \notin {"Jmp", "Retq"}

\* a program with assignments before its Return was selected
C11_Witness ==
    /\ Selector_ran
    /\ EndsInSingleReturn(Selected)
    /\ Len(Selected.body) >= 3
    /\ Len(xcur.body[1].instructions) >= 5

\* the source the Selector moves into the destination of a statement's
\* right-hand side: the atom, the operand or the left operand
MoveSource(rhs) ==
    CASE rhs.tag = "Atom" -> rhs.atom
      [] rhs.tag = "UnaryOperation" -> rhs.operand
      [] rhs.tag = "BinaryOperation" -> rhs.left_operand

\* the operand a Three-Address atom stands for
ArgOf(atom) ==
    IF atom.tag = "Integer" THEN Imm(atom.val) ELSE Variable(atom.name)

\* how many instructions a statement needs besides the move
OtherInstrs(stmt, rhs) ==
    (IF rhs.tag = "Atom" THEN 0 ELSE 1) + (IF stmt.tag = "Return" THEN 1 ELSE 0)

\* C12: for every Assign or Return whose right-hand side is an Atom, a
\* UnaryOp or a BinaryOp, the move of the source into the destination is
\* omitted if and only if the source is a variable and the destination is
\* the identical symbolic variable; otherwise it is the first instruction
\* emitted for the statement.
C12_SelectorMoveElision ==
    Selector_ran =>
        \A s \in DOMAIN Selected.body :
            LET stmt == Selected.body[s]
                rhs == IF stmt.tag = "Assign" THEN stmt.rhs ELSE stmt.expr
                dest == IF stmt.tag = "Assign" THEN Variable(stmt.lhs) ELSE Reg(RAX)
                emitted == handle_stmt(stmt, Block_new("main")).instructions
            IN  rhs.tag # "Read" =>
                    LET source == ArgOf(MoveSource(rhs))
                    IN  IF source.tag = "Variable" /\ source = dest
                        THEN Len(emitted) = OtherInstrs(stmt, rhs)
                        ELSE /\ Len(emitted) = OtherInstrs(stmt, rhs) + 1
                             /\ emitted[1] = Movq(source, dest)

\* the program has the variable list the Home Assigner reads
HasVariableList(program) == "local_variables" \in DOMAIN program

\* C13: the variable list of select_instructions(p) equals p.locals, so
\* that assign_homes has a recorded offset for every symbolic variable of
\* the selected instructions.
C13_SelectorCarriesLocals ==
    Selector_ran =>
        /\ HasVariableList(xcur)
        /\ xcur.local_variables = Selected.locals
        /\ SymbolicNames(xcur) \subseteq
              DOMAIN assign_homes_for_variables(xcur.local_variables)

\* no operand of the program is a symbolic variable
HomeAssigned(program) == SymbolicNames(program) = {}

\* the names of a variable list
Declared(variables) == {variables[i] : i \in DOMAIN variables}

\* C14: for a Pseudo-Assembly Program whose symbolic variables all appear
\* in its variable list, no operand of any instruction in any block of
\* assign_homes(program) is a SymbolicVariable.
C14_HomeAssignerNoSymbolic ==
    (/\ HomeAssigner_ran
     /\ SymbolicNames(xprev) \subseteq Declared(xprev.local_variables)
     /\ ~xpanic) =>
        \A instr \in AllInstrs(xcur) :
            \A arg \in Operands(instr) : arg.tag # "Variable"

\* a program with symbolic operands in two blocks was given homes
C14_Witness ==
    /\ HomeAssigner_ran
    /\ ~xpanic
    /\ Len(xprev.body) = 2
    /\ \A b \in 1..2 :
          \E i \in DOMAIN xprev.body[b].instructions :
              \E arg \in Operands(xprev.body[b].instructions[i]) :
                  arg.tag = "Variable"

\* the names of the operand fields of an instruction
OperandFields(instr) ==
    CASE instr.tag \in {"Addq", "Subq"} -> {"lhs", "rhs"}
      [] instr.tag = "Movq" -> {"from", "to"}
      [] instr.tag \in {"Negq", "Pushq", "Popq"} -> {"operand"}
      [] OTHER -> {}

PairwiseDistinct(variables) ==
    \A i, j \in DOMAIN variables : variables[i] = variables[j] => i = j

\* C15: for a variable list of n pairwise-distinct names, every occurrence
\* of the i-th declared name is replaced by Memory(RBP, -8 * i); so the
\* offsets are unique per variable, negative multiples of 8, and a variable
\* has the same offset in every instruction and block.
C15_HomeAssignerOffsets ==
    (/\ HomeAssigner_ran
     /\ PairwiseDistinct(xprev.local_variables)
     /\ ~xpanic) =>
        \A b \in DOMAIN xprev.body :
            \A k \in DOMAIN xprev.body[b].instructions :
                LET old == xprev.body[b].instructions[k]
                    new == xcur.body[b].instructions[k]
                IN  \A f \in OperandFields(old) :
                        \A i \in DOMAIN xprev.local_variables :
                            old[f] = Variable(xprev.local_variables[i]) =>
                                new[f] = Deref(RBP, (-8) * i)

\* the second and the third of three declared names occur as the operands
\* of an instruction
C15_Witness ==
    /\ HomeAssigner_ran
    /\ ~xpanic
    /\ PairwiseDistinct(xprev.local_variables)
    /\ Len(xprev.local_variables) = 3
    /\ \E instr \in AllInstrs(xcur) :
          Operands(instr) = {Deref(RBP, -16), Deref(RBP, -24)}

TwoMemory(instr) ==
    /\ instr.tag \in {"Addq", "Subq", "Movq"}
    /\ \A arg \in Operands(instr) : arg.tag = "Deref"

\* C16: for a home-assigned program no Add, Sub or Move instruction of
\* patch_instructions(program) has both of its operands in Memory.
C16_LegalizerNoTwoMemory ==
    (Legalizer_ran /\ HomeAssigned(xprev)) =>
        \A instr \in AllInstrs(xcur) : ~TwoMemory(instr)

\* a program with a two-memory instruction was legalized
C16_Witness ==
    /\ Legalizer_ran
    /\ HomeAssigned(xprev)
    /\ \E instr \in AllInstrs(xprev) : TwoMemory(instr)

\* the magnitude of the immediate exceeds 0x10000
OverThreshold(value) ==
    i64_gt(value, Threshold) \/ i64_gt(wrapping_neg(Threshold), value)

\* an Add or Sub of an over-threshold immediate to Memory, or a Move of one
\* to Memory
LargeImmediate(instr) ==
    \/ /\ instr.tag \in {"Addq", "Subq"}
       /\ instr.lhs.tag = "Deref"
       /\ instr.rhs.tag = "Imm"
       /\ OverThreshold(instr.rhs.value)
    \/ /\ instr.tag = "Movq"
       /\ instr.to.tag = "Deref"
       /\ instr.from.tag = "Imm"
       /\ OverThreshold(instr.from.value)

\* C17: for a home-assigned program, immediates of either sign,
\* patch_instructions(program) holds no Add or Sub of an immediate whose
\* magnitude exceeds 0x10000 and no Move of such an immediate to Memory.
C17_LegalizerNoLargeImmediate ==
    (Legalizer_ran /\ HomeAssigned(xprev)) =>
        \A instr \in AllInstrs(xcur) : ~LargeImmediate(instr)

\* the values of a register or a stack slot: 0, 1, -1 and i64::MAX
Values == {U64(0), U64(1), wrapping_neg(U64(1)), I64_MAX}

\* machine states over the accumulator, one other register and the stack
\* slots of three variables
MachineStates ==
    {[regs |-> [r \in {RAX, "RBX"} |-> IF r = RAX THEN a ELSE b], mem |-> m] :
        a \in Values, b \in Values, m \in [{-8, -16, -24} -> Values]}

\* the instruction the Legalizer consumed, when the program is one
\* instruction in one block
TheInstr == xprev.body[1].instructions[1]

\* one of the six rewrite shapes: Add/Sub/Move between two stack slots, or
\* Add/Sub/Move of an immediate above 0x10000 to a stack slot
RewriteShape(instr) ==
    /\ instr.tag \in {"Addq", "Subq", "Movq"}
    /\ LET dest == IF instr.tag = "Movq" THEN instr.to ELSE instr.lhs
           source == IF instr.tag = "Movq" THEN instr.from ELSE instr.rhs
       IN  /\ dest.tag = "Deref"
           /\ \/ source.tag = "Deref"
              \/ source.tag = "Imm" /\ i64_gt(source.value, Threshold)

\* C18: for each of the six rewrite shapes and every machine state,
\* executing the instructions the Legalizer emits for the instruction
\* leaves the same memory and the same registers other than the
\* accumulator as executing the instruction itself.
C18_LegalizerEquivalence ==
    (/\ Legalizer_ran
     /\ Len(xprev.body) = 1
     /\ Len(xprev.body[1].instructions) = 1
     /\ RewriteShape(TheInstr)) =>
        \A s \in MachineStates :
            LET direct == exec(s, TheInstr)
                legalized == exec_all(s, xcur.body[1].instructions)
            IN  /\ legalized.mem = direct.mem
                /\ \A r \in DOMAIN s.regs \ {RAX} : legalized.regs[r] = direct.regs[r]

IsImmediateShape(instr) ==
    /\ instr.tag \in {"Addq", "Subq", "Movq"}
    /\ LET dest == IF instr.tag = "Movq" THEN instr.to ELSE instr.lhs
           source == IF instr.tag = "Movq" THEN instr.from ELSE instr.rhs
       IN  dest.tag = "Deref" /\ source.tag = "Imm"

\* a rewrite rule matches: two memory operands, or an immediate that
\* exceeds 0x10000 added to, subtracted from or moved to memory
RuleMatches(instr) ==
    \/ TwoMemory(instr)
    \/ /\ IsImmediateShape(instr)
       /\ i64_gt((IF instr.tag = "Movq" THEN instr.from ELSE instr.rhs).value,
                 Threshold)

\* the instructions the claim lists as never rewritten: Negq, Pushq, Popq,
\* Callq, Retq, Jmp and every instruction with a register operand
MustPassThrough(instr) ==
    \/ instr.tag \in {"Negq", "Pushq", "Popq", "Callq", "Retq", "Jmp"}
    \/ \E arg \in Operands(instr) : arg.tag = "Reg"

\* outs is the concatenation, in order, of one result per instruction of
\* ins: exactly two instructions where a rewrite rule matches, and the
\* instruction itself everywhere else
RECURSIVE Segmented(_, _)
Segmented(ins, outs) ==
    IF ins = <<>> THEN outs = <<>>
    ELSE LET instr == Head(ins)
             unchanged == /\ outs # <<>>
                          /\ Head(outs) = instr
                          /\ Segmented(Tail(ins), Tail(outs))
             two == /\ Len(outs) >= 2
                    /\ Segmented(Tail(ins), Tail(Tail(outs)))
         IN  CASE MustPassThrough(instr) -> unchanged
               [] RuleMatches(instr) -> two
               [] OTHER -> unchanged

\* C19: patch_instructions returns the same number of blocks with the same
\* labels in the same order; the instructions of each block are the
\* concatenation, in input order, of one result per input instruction: the
\* instruction itself when no rewrite rule matches, as for every Negq,
\* Pushq, Popq, Callq, Retq, Jmp and every instruction with a register
\* operand, and exactly two instructions when one matches.
C19_LegalizerStructure ==
    Legalizer_ran =>
        /\ Len(xcur.body) = Len(xprev.body)
        /\ \A b \in DOMAIN xprev.body :
              /\ xcur.body[b].label = xprev.body[b].label
              /\ Segmented(xprev.body[b].instructions, xcur.body[b].instructions)

\* a two-block program was legalized whose first block holds an add of an
\* immediate below -0x10000 to a stack slot, which no rule matches and which
\* was kept, an instruction that was rewritten into two, and a jump
C19_Witness ==
    /\ Legalizer_ran
    /\ Len(xprev.body) = 2
    /\ LET ins == xprev.body[1].instructions
           outs == xcur.body[1].instructions
       IN  /\ Len(ins) = 3
           /\ LargeImmediate(ins[1])
           /\ ~RuleMatches(ins[1])
           /\ ~MustPassThrough(ins[1])
           /\ RuleMatches(ins[2])
           /\ ins[3].tag = "Jmp"
           /\ Len(outs) = 4
           /\ outs[1] = ins[1]
           /\ outs[4] = ins[3]

\* let ([a 42]) (let ([b a]) b)
EndToEndExample ==
    Let("a", Integer(U64(42)), Let("b", Identifier("a"), Identifier("b")))

\* the Renamer and then the Flattener were applied to the example
EndToEndRun ==
    /\ src = EndToEndExample
    /\ result # NotRun
    /\ rco_runs = 1

\* C20: running the six passes in order on let ([a 42]) (let ([b a]) b) is
\* possible, the Selector handing the Home Assigner a program that declares
\* its variables and the Home Assigner returning a program, and yields the blocks main and conclusion, conclusion empty and main being
\* exactly: Move 42 into Memory(RBP, -8); Move Memory(RBP, -8) into
\* Memory(RBP, -16); Move Memory(RBP, -16) into the accumulator; Jmp
\* conclusion.
C20_EndToEnd ==
    EndToEndRun =>
        /\ Selector_ran =>
              /\ HasVariableList(xcur)
              /\ SymbolicNames(xcur) \subseteq Declared(xcur.local_variables)
        /\ HomeAssigner_ran => ~xpanic
        /\ Legalizer_ran =>
              xcur.body =
                <<[label |-> "main",
                   instructions |->
                      <<Movq(Imm(U64(42)), Deref(RBP, -8)),
                        Movq(Deref(RBP, -8), Deref(RBP, -16)),
                        Movq(Deref(RBP, -16), Reg(RAX)),
                        Jmp("conclusion")>>],
                  [label |-> "conclusion", instructions |-> <<>>]>>

\* the Renamer succeeded on the closed expression drawn, the Flattener ran
\* once on its output and the Explicator on the Flattener's
FrontEndRun ==
    /\ last = "explicate_control"
    /\ before = "remove_complex_operands"
    /\ rco_runs = 1
    /\ result # NotRun
    /\ result.ok
    /\ Closed(src)

\* C21: for every closed Surface Expression e,
\* explicate_control(remove_complex_operands(uniquify_expr(e))) completes
\* without reaching the unreachable!() of gen_atom: every operand the
\* Flattener leaves in place is accepted as an atom.
C21_ExplicatorNoAbort == FrontEndRun => ~cprog.panic

\* the value of a Three-Address atom in a state of the variables
AtomValue(s, atom) ==
    IF atom.tag = "Integer" THEN atom.val ELSE s.vars[atom.name]

\* the value of a right-hand side: Sub is left - right, Minus is -operand
RhsValue(s, rhs) ==
    CASE rhs.tag = "Atom" -> AtomValue(s, rhs.atom)
      [] rhs.tag = "UnaryOperation" -> wrapping_neg(AtomValue(s, rhs.operand))
      [] rhs.tag = "BinaryOperation" ->
            IF rhs.kind = "Add"
            THEN wrapping_add(AtomValue(s, rhs.left_operand),
                              AtomValue(s, rhs.right_operand))
            ELSE wrapping_sub(AtomValue(s, rhs.left_operand),
                              AtomValue(s, rhs.right_operand))

\* the variables of a right-hand side
RhsVars(rhs) ==
    CASE rhs.tag = "Atom" -> AtomVars(rhs.atom)
      [] rhs.tag = "UnaryOperation" -> AtomVars(rhs.operand)
      [] rhs.tag = "BinaryOperation" ->
            AtomVars(rhs.left_operand) \cup AtomVars(rhs.right_operand)
      [] OTHER -> {}

\* the values of a variable: 1, 3 and i64::MAX
VarValues == {U64(1), U64(3), I64_MAX}

\* the states of the given variables and of the accumulator
VarStates(names) ==
    {[vars |-> v, regs |-> [r \in {RAX} |-> U64(0)]] : v \in [names -> VarValues]}

\* C22: for every Assign{lhs, rhs} and every assignment of values to the
\* variables, executing the instructions emitted for the statement leaves
\* lhs equal to the value of rhs in the state before and every other
\* variable unchanged, an operand that is lhs itself included; for Return
\* the same holds with the accumulator as destination.
C22_SelectorComputes ==
    Selector_ran =>
        \A k \in DOMAIN Selected.body :
            LET stmt == Selected.body[k]
                rhs == IF stmt.tag = "Assign" THEN stmt.rhs ELSE stmt.expr
                names == RhsVars(rhs) \cup
                            (IF stmt.tag = "Assign" THEN {stmt.lhs} ELSE {})
                emitted == handle_stmt(stmt, Block_new("main")).instructions
            IN  rhs.tag # "Read" =>
                    \A s \in VarStates(names) :
                        LET t == exec_all(s, emitted)
                        IN  IF stmt.tag = "Assign"
                            THEN /\ t.vars[stmt.lhs] = RhsValue(s, rhs)
                                 /\ \A n \in names \ {stmt.lhs} :
                                        t.vars[n] = s.vars[n]
                            ELSE /\ t.regs[RAX] = RhsValue(s, rhs)
                                 /\ t.vars = s.vars

\* the position of a binary operator that the Flattener reaches through
\* Let nodes only: it is flattened in place, its bindings wrapped around it
InPlaceBinary(e, p) ==
    /\ At(e, p).tag = "BinaryOperation"
    /\ \A q \in Paths(e) : (IsPrefix(q, p) /\ q # p) => At(e, q).tag = "Let"

\* the bindings wrapped around an operator, outermost first
RECURSIVE Chain(_)
Chain(e) ==
    IF e.tag = "Let"
    THEN <<[name |-> e.variable_name, init |-> e.init_expr]>> \o Chain(e.body)
    ELSE <<>>

\* the operator inside the bindings
RECURSIVE Innermost(_)
Innermost(e) == IF e.tag = "Let" THEN Innermost(e.body) ELSE e

\* the names an expression references
Refs(e) == {At(e, p).name : p \in RefPaths(e)}

\* tmp<i> for an i among the temporaries the pass generated, and that i
IsTmp(name) == \E i \in 0..(tmp_index - 1) : name = generate("tmp", i).name

TmpIndex(name) == CHOOSE i \in 0..(tmp_index - 1) : name = generate("tmp", i).name

\* the position in the chain at which a name is bound, 0 when it is not
BoundAt(chain, name) ==
    IF \E j \in DOMAIN chain : chain[j].name = name
    THEN CHOOSE j \in DOMAIN chain : chain[j].name = name
    ELSE 0

\* every binding references only names bound outside it
BoundOutside(chain) ==
    \A j \in DOMAIN chain :
        \A n \in Refs(chain[j].init) : BoundAt(chain, n) < j

\* the bindings an expression needs: those it references and those they need
RECURSIVE Needs(_, _)
Needs(chain, e) ==
    UNION {IF BoundAt(chain, n) = 0 THEN {}
           ELSE {BoundAt(chain, n)} \cup Needs(chain, chain[BoundAt(chain, n)].init) :
           n \in Refs(e)}

\* C23: when the operands of a binary operator are flattened, the bindings
\* wrapped around the operator are, from outermost to innermost, the
\* bindings of the left operand followed by those of the right operand;
\* the indices of the temporaries increase from outermost to innermost and
\* every temporary is bound outside every binding that references it.
C23_FlattenerBindingOrder ==
    (Flattener_ran /\ rco_runs = 1) =>
        \A p \in Paths(prev) :
            InPlaceBinary(prev, p) =>
                LET chain == Chain(At(cur, p))
                    operator == Innermost(At(cur, p))
                IN  /\ operator.tag = "BinaryOperation"
                    /\ \A j \in DOMAIN chain : IsTmp(chain[j].name)
                    /\ \A i, j \in DOMAIN chain :
                          i < j => TmpIndex(chain[i].name) < TmpIndex(chain[j].name)
                    /\ BoundOutside(chain)
                    /\ LET left == Needs(chain, operator.left_operand)
                           right == Needs(chain, operator.right_operand)
                       IN  /\ left \cup right = DOMAIN chain
                           /\ \A i \in left : \A j \in right : i < j

\* both operands of a binary operator needed several bindings
C23_Witness ==
    /\ Flattener_ran
    /\ rco_runs = 1
    /\ InPlaceBinary(prev, <<>>)
    /\ LET chain == Chain(cur)
           operator == Innermost(cur)
       IN  /\ Cardinality(Needs(chain, operator.left_operand)) >= 3
           /\ Cardinality(Needs(chain, operator.right_operand)) >= 3

\* C24: assign_homes keeps the number, order and labels of blocks and the
\* number, order and kind of the instructions of each block; Immediate,
\* Register and Memory operands, Callq callees, Retq and Jmp targets are
\* unchanged; only SymbolicVariable operands change, into Memory operands,
\* and the variable list of the result is empty.
C24_HomeAssignerFrame ==
    (HomeAssigner_ran /\ ~xpanic) =>
        /\ xcur.local_variables = <<>>
        /\ Len(xcur.body) = Len(xprev.body)
        /\ \A b \in DOMAIN xprev.body :
              /\ xcur.body[b].label = xprev.body[b].label
              /\ Len(xcur.body[b].instructions) = Len(xprev.body[b].instructions)
              /\ \A k \in DOMAIN xprev.body[b].instructions :
                    LET old == xprev.body[b].instructions[k]
                        new == xcur.body[b].instructions[k]
                    IN  /\ new.tag = old.tag
                        /\ OperandFields(old) = {} => new = old
                        /\ \A f \in OperandFields(old) :
                              IF old[f].tag = "Variable"
                              THEN new[f].tag = "Deref"
                              ELSE new[f] = old[f]

\* a program with a variable list, two blocks, a Jmp, a Retq and operands
\* of every kind was given homes
C24_Witness ==
    /\ HomeAssigner_ran
    /\ ~xpanic
    /\ xprev.local_variables # <<>>
    /\ Len(xprev.body) = 2
    /\ {"Jmp", "Retq"} \subseteq {i.tag : i \in AllInstrs(xprev)}
    /\ {"Imm", "Deref", "Variable"} \subseteq
          {a.tag : a \in UNION {Operands(i) : i \in AllInstrs(xprev)}}

\* C25: if an Add/Sub/Negate/Move/Push/Pop operand is a SymbolicVariable
\* whose name is not in the variable list, assign_homes aborts and returns
\* no program; if every such name is in the list it never aborts.
C25_HomeAssignerMissingOffset ==
    HomeAssigner_ran =>
        (xpanic <=> ~(SymbolicNames(xprev) \subseteq Declared(xprev.local_variables)))

\* assign_homes aborted on a program that declares one of its two variables
C25_Witness ==
    /\ HomeAssigner_ran
    /\ xpanic
    /\ SymbolicNames(xprev) = {"a", "b"}
    /\ Declared(xprev.local_variables) = {"a"}

\* the Let at q is named before the Let at p: it lies in the initializer of
\* p, or p lies in its body, or it comes first in the traversal
NamedBefore(q, p) ==
    \/ IsPrefix(p \o <<1>>, q)
    \/ IsPrefix(q \o <<2>>, p)
    \/ /\ ~IsPrefix(p, q)
       /\ ~IsPrefix(q, p)
       /\ PathBefore(q, p)

\* how many Lets are named before the Let at p
Rank(e, p) == Cardinality({q \in LetPaths(e) : q # p /\ NamedBefore(q, p)})

\* x<i>
XName(i) == "x" \o ToString(i)

\* C26: for an input with n Let nodes on which uniquify_expr succeeds the
\* generated names are exactly x0 .. x(n-1); a Let is named after the Lets
\* of its initializer and before those of its body; the output depends on
\* the binding structure only, not on the source names: let ([x 0]) x,
\* let ([x0 0]) x0 and let ([x1 0]) x1 all give (let ([x0 0]) x0).
C26_RenamerNumbering ==
    Renamer_ok =>
        /\ Paths(cur) = Paths(prev)
        /\ \A p \in Paths(prev) :
              /\ At(cur, p).tag = At(prev, p).tag
              /\ At(prev, p).tag = "Integer" => At(cur, p) = At(prev, p)
              /\ IsOperator(At(prev, p)) => At(cur, p).kind = At(prev, p).kind
        /\ \A p \in LetPaths(prev) :
              At(cur, p).variable_name = XName(Rank(prev, p))
        /\ \A p \in RefPaths(prev) :
              At(cur, p).name = XName(Rank(prev, InnermostBinder(prev, p)))
        /\ {At(cur, p).variable_name : p \in LetPaths(cur)} =
              {XName(i) : i \in 0..(Cardinality(LetPaths(prev)) - 1)}
        /\ prev \in {Let(n, Integer(U64(0)), Identifier(n)) : n \in {"x", "x0", "x1"}}
              => cur = Let("x0", Integer(U64(0)), Identifier("x0"))

\* an input was renamed that has a Let in the initializer and a Let in the
\* body of a Let, one of them binding y
C26_Witness ==
    /\ Renamer_ok
    /\ \E p \in LetPaths(prev) :
          /\ (p \o <<1>>) \in LetPaths(prev)
          /\ (p \o <<2>>) \in LetPaths(prev)
          /\ At(prev, p \o <<2>>).variable_name = "y"

\* a home-assigned program was rendered
Rendered_home_assigned ==
    /\ last = "to_string"
    /\ before = "assign_homes"

\* main: movq $42, a; movq a, b; jmp conclusion, and conclusion: negq b;
\* retq, with the variables a and b declared
RenderedExample ==
    [local_variables |-> <<"a", "b">>,
     body |-> <<[label |-> "main",
                 instructions |-> <<Movq(Imm(U64(42)), Variable("a")),
                                    Movq(Variable("a"), Variable("b")),
                                    Jmp("conclusion")>>],
                [label |-> "conclusion",
                 instructions |-> <<Negq(Variable("b")), Retq>>]>>]

\* C27: in the rendering of a home-assigned program a Memory operand with
\* base RBP and offset -8 * k is printed as the signed decimal offset and
\* the parenthesised register, -8(%rbp), -16(%rbp), -24(%rbp), and an
\* immediate N as $0x and N in hexadecimal (42 as $0x2a).
C27_MemoryRendering ==
    Rendered_home_assigned =>
        /\ \A arg \in UNION {Operands(i) : i \in AllInstrs(xcur)} :
              /\ (arg.tag = "Deref" /\ arg.reg = RBP /\ arg.offset \in {-8, -16, -24})
                    => arg_to_string(arg) = ToString(arg.offset) \o "(%rbp)"
              /\ arg = Imm(U64(42)) => arg_to_string(arg) = "$0x2a"
        /\ xprev = RenderedExample =>
              text = "main:\n" \o
                     "    movq    $0x2a, -8(%rbp)\n" \o
                     "    movq    -8(%rbp), -16(%rbp)\n" \o
                     "    jmp     conclusion\n" \o
                     "conclusion:\n" \o
                     "    negq    -16(%rbp)\n" \o
                     "    retq\n"

\* the passes were applied in order to a closed Surface Expression
PipelineRun ==
    /\ src # NotRun
    /\ Closed(src)
    /\ result # NotRun
    /\ result.ok
    /\ rco_runs = 1

\* machine states with the value the next read_int call returns
InputStates ==
    {[regs |-> s.regs, mem |-> s.mem, input |-> i] :
        s \in MachineStates, i \in {U64(1), I64_MAX}}

\* the accumulator is written without being read
OverwritesAcc(instr) ==
    \/ instr.tag = "Callq"
    \/ instr.tag = "Movq" /\ instr.to = Reg(RAX) /\ instr.from # Reg(RAX)

\* the accumulator is read
ReadsAcc(instr) == Reg(RAX) \in Operands(instr) /\ ~OverwritesAcc(instr)

\* the accumulator holds, before instruction i, a value that is read later:
\* by an instruction from i on, or as the final accumulator value
AccLiveAt(ins, i) ==
    \E j \in i..(Len(ins) + 1) :
        /\ j <= Len(ins) => ReadsAcc(ins[j])
        /\ \A k \in i..(j - 1) : ~OverwritesAcc(ins[k])

\* an Add or Sub of an immediate above 0x10000 to the accumulator
LargeImmediateToAcc(instr) ==
    /\ instr.tag \in {"Addq", "Subq"}
    /\ instr.lhs = Reg(RAX)
    /\ instr.rhs.tag = "Imm"
    /\ i64_gt(instr.rhs.value, Threshold)

\* outs is the concatenation, in order, of one result per instruction of
\* ins from position i on, and the result of every instruction at which the
\* accumulator holds a value that is read later is the instruction itself
RECURSIVE KeptWhereLive(_, _, _)
KeptWhereLive(ins, i, outs) ==
    IF i > Len(ins) THEN outs = <<>>
    ELSE LET kept == /\ outs # <<>>
                     /\ Head(outs) = ins[i]
                     /\ KeptWhereLive(ins, i + 1, Tail(outs))
             rewritten == /\ Len(outs) >= 2
                          /\ KeptWhereLive(ins, i + 1, Tail(Tail(outs)))
         IN  IF AccLiveAt(ins, i) THEN kept ELSE kept \/ rewritten

TName(i) == "tmp" \o ToString(i)

\* the variables of a Three-Address Program: declared, assigned or used
ProgramVars ==
    {Locals[k] : k \in 1..Len(Locals)}
        \cup {Body[i].lhs : i \in AssignIndices}
        \cup UNION {StmtVars(Body[i]) : i \in 1..Len(Body)}

\* C29: for every closed Surface Expression e, in
\* explicate_control(remove_complex_operands(uniquify_expr(e))) every
\* variable is the lhs of exactly one Assign and no Assign's lhs occurs among
\* the operands of its own rhs; the assigned names are the names x<i> of the
\* Renamer, one per Let of e, and the names tmp<i> of the Flattener, one per
\* temporary, and these are pairwise distinct.
C29_SingleAssignment ==
    (FrontEndRun /\ ~cprog.panic) =>
        LET xs == {XName(i) : i \in 0..(Cardinality(LetPaths(src)) - 1)}
            ts == {TName(i) : i \in 0..(tmp_index - 1)}
        IN  /\ \A v \in ProgramVars :
                  Cardinality({i \in AssignIndices : Body[i].lhs = v}) = 1
            /\ \A i \in AssignIndices : Body[i].lhs \notin StmtVars(Body[i])
            /\ xs \cap ts = {}
            /\ {Body[i].lhs : i \in AssignIndices} = xs \cup ts
            /\ Cardinality(AssignIndices) = Cardinality(xs) + Cardinality(ts)

\* e binds one source name twice, the inner binding's initializer uses the
\* outer one, and the Flattener introduced a temporary
C29_Witness ==
    /\ FrontEndRun
    /\ ~cprog.panic
    /\ tmp_index >= 1
    /\ \E p \in LetPaths(src) : \E q \in LetPaths(src) :
          /\ p # q
          /\ IsPrefix(p, q)
          /\ At(src, p).variable_name = At(src, q).variable_name
          /\ At(src, q).variable_name \in Refs(At(src, q).init_expr)

\* the Explicator was applied to an integer literal
LiteralRun ==
    /\ last = "explicate_control"
    /\ cur.tag = "Integer"

\* the Explicator was applied to a binding of an integer literal
LiteralBound ==
    /\ last = "explicate_control"
    /\ cur.tag = "Let"
    /\ cur.init_expr.tag = "Integer"

\* v >= 2^63, for an unsigned 64-bit v
TopBitSet(v) == v[4] >= HalfLimb

\* C30: the Explicator converts an unsigned 64-bit literal v to a signed
\* 64-bit atom by two's complement reinterpretation and never fails: the
\* atom has v's bit pattern, so it is v when v < 2^63 and the negative
\* v - 2^64 when v >= 2^63 (2^63 gives i64::MIN, 2^64 - 1 gives -1), as a
\* returned literal and as a bound one; the reference interpreter yields an
\* IntegerConversionError exactly when v >= 2^63, so the two agree on a
\* literal exactly when v < 2^63.
C30_LiteralConversion ==
    \A stdin \in Stdins :
        /\ LiteralRun =>
              LET v == cur.val
                  interpreted == interp_expr(stdin, cur)
              IN  /\ ~cprog.panic
                  /\ Locals = <<>>
                  /\ Len(Body) = 1
                  /\ Body[1].tag = "Return"
                  /\ Body[1].expr.tag = "Atom"
                  /\ Body[1].expr.atom.tag = "Integer"
                  /\ LET atom == Body[1].expr.atom.val
                     IN  /\ \A i \in 1..4 : atom[i] = v[i]
                         /\ is_negative(atom) <=> TopBitSet(v)
                         /\ v = <<0, 0, 0, HalfLimb>> => atom = I64_MIN
                         /\ v = U64_MAX => atom = wrapping_neg(U64(1))
                         /\ v = U64(1) => atom = U64(1)
                         /\ (interpreted.ok /\ interpreted.value = atom)
                                <=> ~TopBitSet(v)
                  /\ TopBitSet(v) <=>
                        interpreted = IErr([kind |-> "IntegerConversionError"])
        /\ (LiteralBound /\ ~cprog.panic) =>
              /\ Body[1] =
                    Assign(cur.variable_name, CAtom(AtomInteger(cur.init_expr.val)))
              /\ TopBitSet(cur.init_expr.val) =>
                    interp_expr(stdin, cur) = IErr([kind |-> "IntegerConversionError"])

\* the literal 2^64 - 1 became the atom -1, which the interpreter rejects
C30_Witness ==
    /\ LiteralRun
    /\ cur.val = U64_MAX
    /\ ~cprog.panic
    /\ is_negative(Body[1].expr.atom.val)
    /\ \A stdin \in Stdins : ~interp_expr(stdin, cur).ok

====
